---- MODULE Spec2Model ----
(***************************************************************************)
(* Verification model of the pepper editor: buffer store and undo history, *)
(* LSP client bookkeeping, LSP frame reader, UTF-8 residual reassembler    *)
(* and the subprocess supervisor of the linux platform loop.               *)
(*                                                                         *)
(* Text is a sequence of one-character strings (bytes); positions are the  *)
(* source's 0-based (line_index, column_byte_index) pairs.                 *)
(***************************************************************************)
EXTENDS Integers, Sequences, FiniteSets, TLC

(***************************************************************************)
(* Generic helpers                                                         *)
(***************************************************************************)
Min(a, b) == IF a < b THEN a ELSE b

Max(a, b) == IF a > b THEN a ELSE b

Take(s, n) == SubSeq(s, 1, Min(n, Len(s)))

Drop(s, n) == SubSeq(s, n + 1, Len(s))

SeqsUpTo(S, n) == UNION {[1..k -> S] : k \in 0..n}

Repeat(c, n) == [i \in 1..n |-> c]

NL == "\n"

CR == "\r"

Pos(l, c) == [line |-> l, col |-> c]

PosLE(p, q) == p.line < q.line \/ (p.line = q.line /\ p.col <= q.col)

Rng(f, t) == [from |-> f, to |-> t]

(***************************************************************************)
(* buffer.rs: Text, the small-string holder of deleted text                *)
(***************************************************************************)
inline_string_max_len == 30

U8 == 256

TextNew == [inline |-> TRUE, len |-> 0, s |-> <<>>, panic |-> FALSE]

TextFrom(s) ==
    IF Len(s) <= inline_string_max_len
    THEN [inline |-> TRUE, len |-> Len(s), s |-> s, panic |-> FALSE]
    ELSE [inline |-> FALSE, len |-> 0, s |-> s, panic |-> FALSE]

\* Text::push_str.  `*len += text.len() as u8` is u8 arithmetic: the cast
\* truncates, the addition panics when overflow checks are on (debug build)
\* and wraps otherwise; copy_from_slice panics unless the slice lengths agree.
Text_push_str(t, text, checks) ==
    IF t.panic THEN t
    ELSE IF ~t.inline THEN [t EXCEPT !.s = t.s \o text]
    ELSE LET previous_len == t.len
             add == Len(text) % U8
             sum == previous_len + add
             len == sum % U8
         IN IF checks /\ sum >= U8 THEN [t EXCEPT !.panic = TRUE]
            ELSE IF len <= inline_string_max_len
                 THEN IF len >= previous_len /\ len - previous_len = Len(text)
                      THEN [t EXCEPT !.len = len, !.s = t.s \o text]
                      ELSE [t EXCEPT !.panic = TRUE]
                 ELSE [inline |-> FALSE, len |-> 0, s |-> t.s \o text, panic |-> FALSE]

RECURSIVE Text_push_all(_, _, _)
Text_push_all(t, pieces, checks) ==
    IF pieces = <<>> THEN t
    ELSE Text_push_all(Text_push_str(t, Head(pieces), checks), Tail(pieces), checks)

(***************************************************************************)
(* buffer.rs: BufferContent                                                *)
(***************************************************************************)
HasNL(text) == \E i \in 1..Len(text) : text[i] = NL

FirstNL(text) == CHOOSE i \in 1..Len(text) : text[i] = NL /\ \A j \in 1..(i - 1) : text[j] # NL

RECURSIVE SplitNL(_)
SplitNL(text) ==
    IF ~HasNL(text) THEN <<text>>
    ELSE <<Take(text, FirstNL(text) - 1)>> \o SplitNL(Drop(text, FirstNL(text)))

StripCR(l) == IF Len(l) > 0 /\ l[Len(l)] = CR THEN Take(l, Len(l) - 1) ELSE l

\* str::lines(): pieces between "\n", a final empty piece is not a line, and a
\* "\r" before the "\n" is not part of the line.
str_lines(text) ==
    LET parts == SplitNL(text)
        n == Len(parts)
        kept == IF parts[n] = <<>> THEN Take(parts, n - 1) ELSE parts
    IN [i \in 1..Len(kept) |-> IF i < n THEN StripCR(kept[i]) ELSE kept[i]]

ends_with_nl(text) == Len(text) > 0 /\ text[Len(text)] = NL

clamp_position(lines, position) ==
    LET li == Min(position.line, Len(lines) - 1)
    IN Pos(li, Min(position.col, Len(lines[li + 1])))

\* BufferContent::insert_text: the new lines and the range of the inserted text.
content_insert_text(lines, position, text) ==
    LET p == clamp_position(lines, position)
        li == p.line + 1
        line == lines[li]
    IN IF ~HasNL(text)
       THEN [lines |-> [lines EXCEPT ![li] = Take(line, p.col) \o text \o Drop(line, p.col)],
             range |-> Rng(p, Pos(p.line, p.col + Len(text)))]
       ELSE LET split_line == Drop(line, p.col)
                tl == str_lines(text)
                head == Take(line, p.col) \o (IF Len(tl) > 0 THEN tl[1] ELSE <<>>)
                more == IF Len(tl) > 0 THEN Tail(tl) ELSE <<>>
                line_count == Len(more)
                upto == Take(lines, li - 1) \o <<head>> \o more
                rest == Drop(lines, li)
            IN IF ends_with_nl(text)
               THEN [lines |-> upto \o <<split_line>> \o rest,
                     range |-> Rng(p, Pos(p.line + line_count + 1, 0))]
               ELSE [lines |-> [upto EXCEPT ![li + line_count] = @ \o split_line] \o rest,
                     range |-> Rng(p, Pos(p.line + line_count, Len(upto[li + line_count])))]

RECURSIVE InteriorPieces(_)
InteriorPieces(ls) ==
    IF ls = <<>> THEN <<>> ELSE <<<<NL>>, Head(ls)>> \o InteriorPieces(Tail(ls))

\* BufferContent::delete_range: the new lines and the removed text (a Text,
\* whose panic field records a call that did not return).
content_delete_range(lines, range, checks) ==
    LET from == clamp_position(lines, range.from)
        to == clamp_position(lines, range.to)
        fl == from.line + 1
    IN IF from.line = to.line
       THEN IF from.col > to.col
            THEN [lines |-> lines, text |-> [TextNew EXCEPT !.panic = TRUE]]
            ELSE [lines |-> [lines EXCEPT ![fl] = Take(@, from.col) \o Drop(@, to.col)],
                  text |-> TextFrom(SubSeq(lines[fl], from.col + 1, to.col))]
       ELSE LET first == lines[fl]
                interior == SubSeq(lines, fl + 1, to.line)
                drained == Take(lines, fl) \o Drop(lines, Max(to.line, fl))
                has_to == fl + 1 <= Len(drained)
                to_line == IF has_to THEN drained[fl + 1] ELSE <<>>
                pieces == <<Drop(first, from.col)>> \o InteriorPieces(interior)
                          \o (IF has_to THEN <<<<NL>>, Take(to_line, to.col)>> ELSE <<>>)
                merged == Take(first, from.col) \o Drop(to_line, to.col)
                result == IF has_to
                          THEN Take(drained, fl - 1) \o <<merged>> \o Drop(drained, fl + 1)
                          ELSE [drained EXCEPT ![fl] = Take(first, from.col)]
            IN [lines |-> result, text |-> Text_push_all(TextNew, pieces, checks)]

\* BufferContent::write / buffer_to_string: lines joined with "\n".
RECURSIVE buffer_to_string(_)
buffer_to_string(lines) ==
    IF Len(lines) = 1 THEN lines[1]
    ELSE lines[1] \o <<NL>> \o buffer_to_string(Tail(lines))

\* BufferContent::from_str: one rented empty line, then insert_text at (0,0).
content_from_str(text) == content_insert_text(<<<<>>>>, Pos(0, 0), text).lines

(***************************************************************************)
(* undo.rs: Edit and Undo                                                  *)
(***************************************************************************)
Edit(kind, range, text) == [kind |-> kind, range |-> range, text |-> text]

\* Undo::new
Undo_new == [history |-> <<>>, group_end_indexes |-> <<0, 0>>, current_group_index |-> 1]

\* group_end_indexes[i] with the source's 0-based index
Gei(u, i) == u.group_end_indexes[i + 1]

\* Undo::push_edit
Undo_push_edit(u, edit) ==
    LET history == Take(u.history, Gei(u, u.current_group_index)) \o <<edit>>
        ends == Take(u.group_end_indexes, u.current_group_index + 1)
    IN [u EXCEPT !.history = history,
                 !.group_end_indexes = [ends EXCEPT ![u.current_group_index + 1] = @ + 1]]

\* Undo::commit_edits
Undo_commit_edits(u) ==
    LET current_group_size == Gei(u, u.current_group_index) - Gei(u, u.current_group_index - 1)
    IN IF current_group_size > 0
       THEN [u EXCEPT !.current_group_index = Len(u.group_end_indexes),
                      !.group_end_indexes = Append(@, Len(u.history))]
       ELSE u

Reverse(s) == [i \in 1..Len(s) |-> s[Len(s) + 1 - i]]

\* the slice history[start..end] of the current group
Undo_current_group(u) ==
    SubSeq(u.history, Gei(u, u.current_group_index - 1) + 1, Gei(u, u.current_group_index))

\* Undo::undo: the history after the call and the edits its iterator yields
Undo_undo(u) ==
    LET c == Undo_commit_edits(u)
    IN [undo |-> c, edits |-> Reverse(Undo_current_group(c))]

\* Undo::redo
Undo_redo(u) ==
    LET c == Undo_commit_edits(u)
    IN [undo |-> c, edits |-> Undo_current_group(c)]

\* Edit::revert on the content: a Delete is re-inserted, an Insert is deleted.
\* st is [lines, panic]; a call that panicked leaves nothing more to run.
Edit_revert(st, edit, checks) ==
    IF st.panic THEN st
    ELSE IF edit.kind = "Delete"
    THEN [lines |-> content_insert_text(st.lines, edit.range.from, edit.text).lines, panic |-> FALSE]
    ELSE [lines |-> content_delete_range(st.lines, edit.range, checks).lines,
          panic |-> content_delete_range(st.lines, edit.range, checks).text.panic]

\* Edit::apply on the content
Edit_apply(st, edit, checks) ==
    IF st.panic THEN st
    ELSE IF edit.kind = "Insert"
    THEN [lines |-> content_insert_text(st.lines, edit.range.from, edit.text).lines, panic |-> FALSE]
    ELSE [lines |-> content_delete_range(st.lines, edit.range, checks).lines,
          panic |-> content_delete_range(st.lines, edit.range, checks).text.panic]

RECURSIVE revert_all(_, _, _)
revert_all(st, edits, checks) ==
    IF edits = <<>> THEN st
    ELSE revert_all(Edit_revert(st, Head(edits), checks), Tail(edits), checks)

RECURSIVE apply_all(_, _, _)
apply_all(st, edits, checks) ==
    IF edits = <<>> THEN st
    ELSE apply_all(Edit_apply(st, Head(edits), checks), Tail(edits), checks)

(***************************************************************************)
(* buffer.rs: Buffer (content + history + needs_save)                      *)
(***************************************************************************)
\* Buffer::new over a content
Buffer_new(lines) ==
    [content |-> lines, history |-> Undo_new, needs_save |-> FALSE, panicked |-> FALSE]

\* Buffer::insert_text.  line_at(position.line_index) indexes the lines with
\* the unclamped line index before the content clamps the position.
Buffer_insert_text(b, position, text) ==
    IF text = <<>> THEN b
    ELSE IF position.line >= Len(b.content) THEN [b EXCEPT !.needs_save = TRUE, !.panicked = TRUE]
    ELSE LET r == content_insert_text(b.content, position, text)
         IN [b EXCEPT !.needs_save = TRUE,
                      !.content = r.lines,
                      !.history = Undo_push_edit(@, Edit("Insert", r.range, text))]

\* Buffer::delete_range.  The edit keeps the range as given and the removed text.
Buffer_delete_range(b, range, checks) ==
    IF range.from = range.to THEN b
    ELSE LET d == content_delete_range(b.content, range, checks)
         IN IF d.text.panic \/ range.from.line >= Len(d.lines)
            THEN [b EXCEPT !.needs_save = TRUE, !.panicked = TRUE]
            ELSE [b EXCEPT !.needs_save = TRUE,
                           !.content = d.lines,
                           !.history = Undo_push_edit(@, Edit("Delete", range, d.text.s))]

\* Buffer::commit_edits
Buffer_commit_edits(b) == [b EXCEPT !.history = Undo_commit_edits(@)]

\* Buffer::undo (history_edits): the edits the history yields are reverted on
\* the content one by one; the result carries the edits that were yielded.
Buffer_undo(b, checks) ==
    LET u == Undo_undo(b.history)
        r == revert_all([lines |-> b.content, panic |-> FALSE], u.edits, checks)
    IN [buffer |-> [b EXCEPT !.needs_save = TRUE, !.history = u.undo,
                             !.content = r.lines, !.panicked = r.panic],
        edits |-> u.edits]

\* Buffer::redo (history_edits)
Buffer_redo(b, checks) ==
    LET u == Undo_redo(b.history)
        r == apply_all([lines |-> b.content, panic |-> FALSE], u.edits, checks)
    IN [buffer |-> [b EXCEPT !.needs_save = TRUE, !.history = u.undo,
                             !.content = r.lines, !.panicked = r.panic],
        edits |-> u.edits]

(***************************************************************************)
(* Specification SpecUndo: a buffer is edited, then undone until undo      *)
(* yields no more edits.                                                   *)
(***************************************************************************)
MaxEdits == 2

MaxLine == 2

MaxCol == 2

InitialTexts == {<<>>, <<"a", "b">>, <<"a", NL, "b">>}

EditTexts == {<<>>, <<"x">>, <<NL>>, <<"x", NL, "y">>}

PositionSet == {Pos(l, c) : l \in 0..MaxLine, c \in 0..MaxCol}

\* BufferRange::between orders its two ends
RangeSet == {r \in {Rng(f, t) : f \in PositionSet, t \in PositionSet} : PosLE(r.from, r.to)}

VARIABLES buffer, initial_content, edit_count, undo_phase, undo_yielded, overflow_checks

undoVars == <<buffer, initial_content, edit_count, undo_phase, undo_yielded, overflow_checks>>

UndoInit ==
    /\ \E t \in InitialTexts :
          /\ initial_content = content_from_str(t)
          /\ buffer = Buffer_new(content_from_str(t))
    /\ edit_count = 0
    /\ undo_phase = "edit"
    /\ undo_yielded = <<>>
    /\ overflow_checks \in BOOLEAN

UndoInsertText(position, text) ==
    /\ undo_phase = "edit" /\ ~buffer.panicked /\ edit_count < MaxEdits
    /\ buffer' = Buffer_insert_text(buffer, position, text)
    /\ edit_count' = edit_count + 1
    /\ UNCHANGED <<initial_content, undo_phase, undo_yielded, overflow_checks>>

UndoDeleteRange(range) ==
    /\ undo_phase = "edit" /\ ~buffer.panicked /\ edit_count < MaxEdits
    /\ buffer' = Buffer_delete_range(buffer, range, overflow_checks)
    /\ edit_count' = edit_count + 1
    /\ UNCHANGED <<initial_content, undo_phase, undo_yielded, overflow_checks>>

UndoCommitEdits ==
    /\ undo_phase = "edit" /\ ~buffer.panicked
    /\ buffer' = Buffer_commit_edits(buffer)
    /\ UNCHANGED <<initial_content, edit_count, undo_phase, undo_yielded, overflow_checks>>

\* one call of Buffer::undo; the caller stops once a call yields no edits
UndoUndo ==
    /\ undo_phase \in {"edit", "undo"} /\ ~buffer.panicked
    /\ LET r == Buffer_undo(buffer, overflow_checks)
       IN /\ buffer' = r.buffer
          /\ undo_yielded' = r.edits
          /\ undo_phase' = IF r.edits = <<>> THEN "done" ELSE "undo"
    /\ UNCHANGED <<initial_content, edit_count, overflow_checks>>

(***************************************************************************)
(* Specification SpecRoundTrip: BufferContent::insert_text followed by     *)
(* BufferContent::delete_range of the range the insert returned.           *)
(***************************************************************************)
\* a line long enough to take the u8 length of a Text past 255
LongLineLen == 255

RoundTripTexts ==
    SeqsUpTo({"x", NL}, 3) \cup {<<"x", CR, NL>>, <<NL>> \o Repeat("x", LongLineLen) \o <<NL>>}

VARIABLES rt_initial, rt_lines, rt_text, rt_range, rt_phase, rt_panicked, rt_checks

rtVars == <<rt_initial, rt_lines, rt_text, rt_range, rt_phase, rt_panicked, rt_checks>>

RtInit ==
    /\ \E t \in InitialTexts : rt_initial = content_from_str(t)
    /\ rt_lines = rt_initial
    /\ rt_text = <<>>
    /\ rt_range = Rng(Pos(0, 0), Pos(0, 0))
    /\ rt_phase = "start"
    /\ rt_panicked = FALSE
    /\ rt_checks \in BOOLEAN

RtInsertText(position, text) ==
    /\ rt_phase = "start"
    /\ LET r == content_insert_text(rt_lines, position, text)
       IN /\ rt_lines' = r.lines
          /\ rt_range' = r.range
    /\ rt_text' = text
    /\ rt_phase' = "inserted"
    /\ UNCHANGED <<rt_initial, rt_panicked, rt_checks>>

RtDeleteRange ==
    /\ rt_phase = "inserted"
    /\ LET d == content_delete_range(rt_lines, rt_range, rt_checks)
       IN /\ rt_lines' = d.lines
          /\ rt_panicked' = d.text.panic
    /\ rt_phase' = "deleted"
    /\ UNCHANGED <<rt_initial, rt_text, rt_range, rt_checks>>

(***************************************************************************)
(* buffer.rs: BufferCollection.  A slot is a record with an `open` flag    *)
(* (Option<Buffer>); `uid` tells apart the buffers that lived in a slot.   *)
(***************************************************************************)
NoBuffer == [open |-> FALSE, uid |-> 0, path |-> "", content |-> <<<<>>>>]

\* the slot BufferCollection::add puts the buffer in: the first None slot,
\* else a new slot at the end (1-based index; the handle is the index - 1)
BufferCollection_add_slot(buffers) ==
    IF \E i \in 1..Len(buffers) : ~buffers[i].open
    THEN CHOOSE i \in 1..Len(buffers) : ~buffers[i].open /\ \A j \in 1..(i - 1) : buffers[j].open
    ELSE Len(buffers) + 1

\* BufferCollection::add
BufferCollection_add(buffers, b) ==
    IF BufferCollection_add_slot(buffers) <= Len(buffers)
    THEN [buffers EXCEPT ![BufferCollection_add_slot(buffers)] = b]
    ELSE Append(buffers, b)

\* BufferCollection::get / get_mut: the handle resolves to whatever buffer is
\* in the slot now
BufferCollection_has(buffers, handle) ==
    handle >= 0 /\ handle < Len(buffers) /\ buffers[handle + 1].open

\* BufferCollection::remove_where for one handle
BufferCollection_remove(buffers, handle) == [buffers EXCEPT ![handle + 1] = NoBuffer]

(***************************************************************************)
(* lsp/protocol.rs: parse_server_event and the pending-request table       *)
(***************************************************************************)
\* A message body as parse_server_event sees it: id (0 stands for null /
\* absent), method, result ("null" or a value), error (present or not).
Body(id, method, result, has_error, payload) ==
    [id |-> id, method |-> method, result |-> result, has_error |-> has_error,
     payload |-> payload]

\* parse_server_event: the kind of ServerEvent the body is turned into
parse_server_event(body) ==
    IF body.result # "null"
    THEN IF body.id > 0 THEN "Response" ELSE "ParseError"
    ELSE IF body.has_error
    THEN IF body.id > 0 THEN "ResponseError" ELSE "ParseError"
    ELSE IF body.id # 0 THEN "Request"
    ELSE "Notification"

\* PendingRequestColection::add: the first slot with id 0 is reused
PendingRequests_add(pending, request) ==
    IF \E i \in 1..Len(pending) : pending[i].id = 0
    THEN [pending EXCEPT ![CHOOSE i \in 1..Len(pending) :
                              pending[i].id = 0 /\ \A j \in 1..(i - 1) : pending[j].id # 0] = request]
    ELSE Append(pending, request)

\* the index PendingRequestColection::take finds for the id, 0 when none
PendingRequests_find(pending, id) ==
    IF \E i \in 1..Len(pending) : pending[i].id = id
    THEN CHOOSE i \in 1..Len(pending) : pending[i].id = id /\ \A j \in 1..(i - 1) : pending[j].id # id
    ELSE 0

\* PendingRequestColection::take: the entry's id is set to 0
PendingRequests_take(pending, id) ==
    IF PendingRequests_find(pending, id) = 0 THEN pending
    ELSE [pending EXCEPT ![PendingRequests_find(pending, id)].id = 0]

\* number of entries the table holds for the id
PendingRequests_count(pending, id) == Cardinality({i \in 1..Len(pending) : pending[i].id = id})

(***************************************************************************)
(* lsp/client.rs: VersionedBuffer, VersionedBufferCollection               *)
(***************************************************************************)
\* VersionedBuffer::default
VersionedBuffer_default == [version |-> 0, pending_edits |-> <<>>]

\* VersionedBuffer::flush
VersionedBuffer_flush(vb) == [version |-> vb.version + 1, pending_edits |-> <<>>]

\* VersionedBuffer::dispose: flush, then version = 1
VersionedBuffer_dispose(vb) == [VersionedBuffer_flush(vb) EXCEPT !.version = 1]

\* VersionedBufferCollection::add_edit: the vector is resized with defaults
VersionedBuffers_add_edit(vbs, handle, range, text) ==
    LET resized == IF handle >= Len(vbs)
                   THEN vbs \o [i \in 1..(handle + 1 - Len(vbs)) |-> VersionedBuffer_default]
                   ELSE vbs
    IN [resized EXCEPT ![handle + 1].pending_edits = Append(@, [range |-> range, text |-> text])]

\* VersionedBufferCollection::dispose: only an entry that exists is disposed
VersionedBuffers_dispose(vbs, handle) ==
    IF handle < Len(vbs) THEN [vbs EXCEPT ![handle + 1] = VersionedBuffer_dispose(@)] ELSE vbs

(***************************************************************************)
(* lsp/client.rs: BufferDiagnosticCollection, DiagnosticCollection.        *)
(* An absent buffer_handle (None) is -1.                                   *)
(***************************************************************************)
PosLT(p, q) == p.line < q.line \/ (p.line = q.line /\ p.col < q.col)

Diagnostic(message, range) == [message |-> message, range |-> range]

\* BufferDiagnosticCollection::add: the entry at index len is overwritten
\* when the vector is longer than len, else the diagnostic is pushed
BufferDiagnosticCollection_add(c, d) ==
    IF c.len < Len(c.diagnostics)
    THEN [c EXCEPT !.diagnostics[c.len + 1] = d, !.len = @ + 1]
    ELSE [c EXCEPT !.diagnostics = Append(@, d), !.len = @ + 1]

RECURSIVE BufferDiagnosticCollection_add_all(_, _)
BufferDiagnosticCollection_add_all(c, ds) ==
    IF ds = <<>> THEN c
    ELSE BufferDiagnosticCollection_add_all(BufferDiagnosticCollection_add(c, Head(ds)), Tail(ds))

\* a stable sort by utf16_range.from, as Vec::sort_by_key
sort_by_key_from(ds) ==
    LET n == Len(ds)
        before(j, i) == \/ PosLT(ds[j].range.from, ds[i].range.from)
                        \/ (ds[j].range.from = ds[i].range.from /\ j < i)
        rank(i) == Cardinality({j \in 1..n : before(j, i)}) + 1
    IN [k \in 1..n |-> ds[CHOOSE i \in 1..n : rank(i) = k]]

\* BufferDiagnosticCollection::sort: the whole vector is sorted
BufferDiagnosticCollection_sort(c) == [c EXCEPT !.diagnostics = sort_by_key_from(@)]

\* the handle of the first open buffer with the path, -1 when there is none
find_buffer_with_path(buffers, path) ==
    IF \E i \in 1..Len(buffers) : buffers[i].open /\ buffers[i].path = path
    THEN (CHOOSE i \in 1..Len(buffers) :
             /\ buffers[i].open /\ buffers[i].path = path
             /\ \A j \in 1..(i - 1) : ~(buffers[j].open /\ buffers[j].path = path)) - 1
    ELSE -1

\* index of the first collection of the path, 0 when there is none
diagnostics_index_of(diags, path) ==
    IF \E i \in 1..Len(diags) : diags[i].path = path
    THEN CHOOSE i \in 1..Len(diags) : diags[i].path = path /\ \A j \in 1..(i - 1) : diags[j].path # path
    ELSE 0

\* DiagnosticCollection::path_diagnostics_mut: the collections after the call
\* and the index of the collection it returns
path_diagnostics_mut(diags, buffers, path) ==
    IF diagnostics_index_of(diags, path) # 0
    THEN [diags |-> [diags EXCEPT ![diagnostics_index_of(diags, path)].len = 0],
          index |-> diagnostics_index_of(diags, path)]
    ELSE [diags |-> Append(diags, [path |-> path,
                                   buffer_handle |-> find_buffer_with_path(buffers, path),
                                   diagnostics |-> <<>>, len |-> 0]),
          index |-> Len(diags) + 1]

\* Vec::swap_remove
swap_remove(s, i) ==
    IF i = Len(s) THEN SubSeq(s, 1, Len(s) - 1)
    ELSE [SubSeq(s, 1, Len(s) - 1) EXCEPT ![i] = s[Len(s)]]

RECURSIVE clear_empty_from(_, _)
clear_empty_from(diags, i) ==
    IF i = 0 THEN diags
    ELSE clear_empty_from(IF diags[i].len = 0 THEN swap_remove(diags, i) ELSE diags, i - 1)

\* DiagnosticCollection::clear_empty
clear_empty(diags) == clear_empty_from(diags, Len(diags))

\* Client::on_notification, "textDocument/publishDiagnostics"
publish_diagnostics(diags, buffers, path, ds) ==
    LET r == path_diagnostics_mut(diags, buffers, path)
    IN clear_empty([r.diags EXCEPT ![r.index] =
           BufferDiagnosticCollection_sort(BufferDiagnosticCollection_add_all(@, ds))])

\* DiagnosticCollection::iter for one path: diagnostics[..len]
diagnostics_of_path(diags, path) ==
    IF diagnostics_index_of(diags, path) = 0 THEN <<>>
    ELSE Take(diags[diagnostics_index_of(diags, path)].diagnostics,
              diags[diagnostics_index_of(diags, path)].len)

\* DiagnosticCollection::on_load_buffer
on_load_buffer(diags, buffers, handle) ==
    IF ~BufferCollection_has(buffers, handle) \/ buffers[handle + 1].path = "" THEN diags
    ELSE LET hit(i) == diags[i].buffer_handle = -1 /\ diags[i].path = buffers[handle + 1].path
         IN IF \E i \in 1..Len(diags) : hit(i)
            THEN [diags EXCEPT ![CHOOSE i \in 1..Len(diags) :
                                   hit(i) /\ \A j \in 1..(i - 1) : ~hit(j)].buffer_handle = handle]
            ELSE diags

\* DiagnosticCollection::on_save_buffer: collections bound to the handle are
\* unbound, up to and except the first that has the buffer's path
on_save_buffer(diags, buffers, handle) ==
    IF ~BufferCollection_has(buffers, handle) \/ buffers[handle + 1].path = "" THEN diags
    ELSE LET hit(i) == diags[i].buffer_handle = handle /\ diags[i].path = buffers[handle + 1].path
             stop == IF \E i \in 1..Len(diags) : hit(i)
                     THEN CHOOSE i \in 1..Len(diags) : hit(i) /\ \A j \in 1..(i - 1) : ~hit(j)
                     ELSE Len(diags) + 1
         IN [i \in 1..Len(diags) |->
                IF i < stop /\ diags[i].buffer_handle = handle
                THEN [diags[i] EXCEPT !.buffer_handle = -1] ELSE diags[i]]

\* DiagnosticCollection::on_close_buffer
on_close_buffer(diags, handle) ==
    IF \E i \in 1..Len(diags) : diags[i].buffer_handle = handle
    THEN [diags EXCEPT ![CHOOSE i \in 1..Len(diags) :
                           /\ diags[i].buffer_handle = handle
                           /\ \A j \in 1..(i - 1) : diags[j].buffer_handle # handle].buffer_handle = -1]
    ELSE diags

(***************************************************************************)
(* The language server's view of the documents, as far as the messages     *)
(* the client sent determine it: per path, whether the document is open,   *)
(* its text and the versions received since didOpen.                       *)
(***************************************************************************)
NoDocument == [open |-> FALSE, text |-> <<>>, versions |-> <<>>]

\* number of characters in front of an LSP position of a text
document_offset(text, position) ==
    LET nls == {i \in 1..Len(text) : text[i] = NL}
        line_start == IF position.line = 0 THEN 0
                      ELSE IF Cardinality(nls) < position.line THEN Len(text)
                      ELSE CHOOSE i \in nls : Cardinality({j \in nls : j <= i}) = position.line
        later == {i \in nls : i > line_start}
        line_end == IF later = {} THEN Len(text)
                    ELSE (CHOOSE i \in later : \A j \in later : i <= j) - 1
    IN Min(line_start + position.col, line_end)

\* one content change event: the whole text, or the text that replaces a range
document_apply_change(text, change) ==
    IF change.full THEN change.text
    ELSE Take(text, document_offset(text, change.range.from)) \o change.text
         \o Drop(text, document_offset(text, change.range.to))

RECURSIVE document_apply_changes(_, _)
document_apply_changes(text, changes) ==
    IF changes = <<>> THEN text
    ELSE document_apply_changes(document_apply_change(text, Head(changes)), Tail(changes))

\* textDocument/didOpen as received
server_did_open(docs, path, version, text) ==
    [docs EXCEPT ![path] = [open |-> TRUE, text |-> text, versions |-> <<version>>]]

\* textDocument/didChange as received (ignored for a document never opened)
server_did_change(docs, path, version, changes) ==
    IF ~docs[path].open THEN docs
    ELSE [docs EXCEPT ![path].text = document_apply_changes(@, changes),
                      ![path].versions = Append(@, version)]

\* textDocument/didClose as received
server_did_close(docs, path) == [docs EXCEPT ![path] = NoDocument]

(***************************************************************************)
(* lsp/client.rs: capabilities and the helper module                       *)
(***************************************************************************)
\* ServerCapabilities::default
Capabilities_default ==
    [open_close |-> FALSE, change |-> "None", save |-> "None",
     formatting |-> FALSE, hover |-> FALSE]

\* ServerCapabilities::from_json: TextDocumentSyncCapability::from_json of the
\* integers 0, 1, 2 and of the option objects, and the two providers
Capabilities_from_json ==
    {[open_close |-> oc, change |-> ch, save |-> sv, formatting |-> f, hover |-> h] :
        oc \in BOOLEAN, ch \in {"None", "Full", "Incremental"},
        sv \in {"None", "Full", "Incremental"}, f \in BOOLEAN, h \in BOOLEAN}

\* helper::send_did_open: version 0 and the full text
send_did_open(caps, buffers, docs, handle) ==
    IF ~caps.open_close \/ ~BufferCollection_has(buffers, handle) THEN docs
    ELSE IF buffers[handle + 1].path = "" THEN docs
    ELSE server_did_open(docs, buffers[handle + 1].path, 0,
                         buffer_to_string(buffers[handle + 1].content))

RECURSIVE send_did_open_all(_, _, _, _)
send_did_open_all(caps, buffers, docs, handle) ==
    IF handle >= Len(buffers) THEN docs
    ELSE send_did_open_all(caps, buffers, send_did_open(caps, buffers, docs, handle), handle + 1)

\* helper::send_did_close
send_did_close(caps, buffers, docs, handle) ==
    IF ~caps.open_close \/ ~BufferCollection_has(buffers, handle) THEN docs
    ELSE IF buffers[handle + 1].path = "" THEN docs
    ELSE server_did_close(docs, buffers[handle + 1].path)

\* the contentChanges of a didChange: chosen by textDocumentSync.save
content_changes(caps, b, versioned_buffer) ==
    IF caps.save = "None" THEN <<>>
    ELSE IF caps.save = "Full"
    THEN <<[full |-> TRUE, range |-> Rng(Pos(0, 0), Pos(0, 0)),
            text |-> buffer_to_string(b.content)]>>
    ELSE [i \in 1..Len(versioned_buffer.pending_edits) |->
             [full |-> FALSE, range |-> versioned_buffer.pending_edits[i].range,
              text |-> versioned_buffer.pending_edits[i].text]]

\* helper::send_pending_did_change, the loop body for one versioned buffer;
\* w is [versioned_buffers, docs]
send_pending_did_change_one(caps, buffers, w, i) ==
    IF w.versioned_buffers[i].pending_edits = <<>> THEN w
    ELSE IF ~BufferCollection_has(buffers, i - 1) THEN w
    ELSE IF buffers[i].path = "" THEN w
    ELSE [versioned_buffers |-> [w.versioned_buffers EXCEPT ![i] = VersionedBuffer_flush(@)],
          docs |-> server_did_change(w.docs, buffers[i].path, w.versioned_buffers[i].version,
                                     content_changes(caps, buffers[i], w.versioned_buffers[i]))]

RECURSIVE send_pending_did_change_from(_, _, _, _)
send_pending_did_change_from(caps, buffers, w, i) ==
    IF i > Len(w.versioned_buffers) THEN w
    ELSE send_pending_did_change_from(caps, buffers,
             send_pending_did_change_one(caps, buffers, w, i), i + 1)

\* helper::send_pending_did_change
send_pending_did_change(caps, buffers, w) ==
    IF caps.change = "None" THEN w
    ELSE send_pending_did_change_from(caps, buffers, w, 1)

(***************************************************************************)
(* The LSP client of one server (lsp/client.rs: Client) with the editor's  *)
(* buffers.  An editor operation and the on_editor_events call that hands  *)
(* its event to the client are one step.                                   *)
(***************************************************************************)
MaxBuffers == 2

MaxOpens == 2

MaxLspEdits == 2

MaxRequests == 3

Paths == {"p", "q"}

LspInitialTexts == {<<>>, <<"a", NL, "b">>}

LspEditTexts == {<<"x">>, <<NL>>}

\* the positions inside a content
ValidPositions(lines) ==
    {p \in PositionSet : p.line < Len(lines) /\ p.col <= Len(lines[p.line + 1])}

VARIABLES editor_buffers, next_uid, client, server_docs, lsp_edit_count,
          replied, last_reply, request_origin, formatting_applied, last_publish

lspVars == <<editor_buffers, next_uid, client, server_docs, lsp_edit_count,
             replied, last_reply, request_origin, formatting_applied, last_publish>>

\* Client::new
Client_new ==
    [initialized |-> FALSE, server_capabilities |-> Capabilities_default,
     next_request_id |-> 1, pending_requests |-> <<>>,
     versioned_buffers |-> <<>>, diagnostics |-> <<>>]

\* Client::request: nothing is sent before the client is initialized
Client_request(c, method, buffer_handle) ==
    IF ~c.initialized THEN c
    ELSE [c EXCEPT !.next_request_id = @ + 1,
                   !.pending_requests = PendingRequests_add(@,
                       [id |-> c.next_request_id, method |-> method,
                        buffer_handle |-> buffer_handle])]

\* Client::initialize: the initialize request is sent with the flag raised
\* for the call
Client_initialize(c) ==
    [Client_request([c EXCEPT !.initialized = TRUE], "initialize", -1)
        EXCEPT !.initialized = FALSE]

\* ClientManager::start: a new client, initialize sent
LspInit ==
    /\ editor_buffers = <<>>
    /\ next_uid = 1
    /\ client = Client_initialize(Client_new)
    /\ server_docs = [p \in Paths |-> NoDocument]
    /\ lsp_edit_count = 0
    /\ replied = {}
    /\ last_reply = [id |-> 0, before |-> 0, after |-> 0]
    /\ request_origin = <<0>>
    /\ formatting_applied = {}
    /\ last_publish = [path |-> "", diagnostics |-> <<>>]

ghostUnchanged == UNCHANGED <<replied, last_reply, request_origin, formatting_applied, last_publish>>

\* a buffer is opened; EditorEvent::BufferLoad
LspOpenBuffer(path, text) ==
    /\ next_uid <= MaxOpens
    /\ BufferCollection_add_slot(editor_buffers) <= MaxBuffers
    /\ find_buffer_with_path(editor_buffers, path) = -1
    /\ LET b == [open |-> TRUE, uid |-> next_uid, path |-> path,
                 content |-> content_from_str(text)]
           handle == BufferCollection_add_slot(editor_buffers) - 1
           buffers == BufferCollection_add(editor_buffers, b)
       IN /\ editor_buffers' = buffers
          /\ IF ~client.initialized
             THEN UNCHANGED <<client, server_docs>>
             ELSE /\ client' = [client EXCEPT
                        !.versioned_buffers = VersionedBuffers_dispose(@, handle),
                        !.diagnostics = on_load_buffer(@, buffers, handle)]
                  /\ server_docs' = send_did_open(client.server_capabilities, buffers,
                                                  server_docs, handle)
    /\ next_uid' = next_uid + 1
    /\ UNCHANGED lsp_edit_count
    /\ ghostUnchanged

\* text is inserted in a buffer; EditorEvent::BufferInsertText
LspInsertText(handle, position, text) ==
    /\ lsp_edit_count < MaxLspEdits
    /\ BufferCollection_has(editor_buffers, handle)
    /\ position \in ValidPositions(editor_buffers[handle + 1].content)
    /\ LET r == content_insert_text(editor_buffers[handle + 1].content, position, text)
       IN /\ editor_buffers' = [editor_buffers EXCEPT ![handle + 1].content = r.lines]
          /\ client' = IF ~client.initialized THEN client
                       ELSE [client EXCEPT !.versioned_buffers =
                               VersionedBuffers_add_edit(@, handle,
                                   Rng(r.range.from, r.range.from), text)]
    /\ lsp_edit_count' = lsp_edit_count + 1
    /\ UNCHANGED <<next_uid, server_docs>>
    /\ ghostUnchanged

\* a range is deleted from a buffer; EditorEvent::BufferDeleteText
LspDeleteRange(handle, range) ==
    /\ lsp_edit_count < MaxLspEdits
    /\ BufferCollection_has(editor_buffers, handle)
    /\ range.from \in ValidPositions(editor_buffers[handle + 1].content)
    /\ range.to \in ValidPositions(editor_buffers[handle + 1].content)
    /\ range.from # range.to
    /\ editor_buffers' = [editor_buffers EXCEPT ![handle + 1].content =
                              content_delete_range(@, range, FALSE).lines]
    /\ client' = IF ~client.initialized THEN client
                 ELSE [client EXCEPT !.versioned_buffers =
                         VersionedBuffers_add_edit(@, handle, range, <<>>)]
    /\ lsp_edit_count' = lsp_edit_count + 1
    /\ UNCHANGED <<next_uid, server_docs>>
    /\ ghostUnchanged

\* the client's state after helper::send_pending_did_change
Client_flush(c, buffers, docs) ==
    LET w == send_pending_did_change(c.server_capabilities, buffers,
                 [versioned_buffers |-> c.versioned_buffers, docs |-> docs])
    IN [client |-> [c EXCEPT !.versioned_buffers = w.versioned_buffers], docs |-> w.docs]

\* EditorEvent::Idle
LspIdle ==
    /\ client.initialized
    /\ \E i \in 1..Len(client.versioned_buffers) :
          client.versioned_buffers[i].pending_edits # <<>>
    /\ client' = Client_flush(client, editor_buffers, server_docs).client
    /\ server_docs' = Client_flush(client, editor_buffers, server_docs).docs
    /\ UNCHANGED <<editor_buffers, next_uid, lsp_edit_count>>
    /\ ghostUnchanged

\* EditorEvent::BufferSave (didSave changes nothing the model keeps)
LspSaveBuffer(handle) ==
    /\ client.initialized
    /\ BufferCollection_has(editor_buffers, handle)
    /\ LET c == [client EXCEPT !.diagnostics = on_save_buffer(@, editor_buffers, handle)]
       IN /\ client' = Client_flush(c, editor_buffers, server_docs).client
          /\ server_docs' = Client_flush(c, editor_buffers, server_docs).docs
    /\ UNCHANGED <<editor_buffers, next_uid, lsp_edit_count>>
    /\ ghostUnchanged

\* the `save` command with a path argument: the buffer takes the new path
\* (Buffer::set_path), is written, and EditorEvent::BufferSave is handled
LspSaveBufferAs(handle, path) ==
    /\ client.initialized
    /\ BufferCollection_has(editor_buffers, handle)
    /\ editor_buffers[handle + 1].path # path
    /\ find_buffer_with_path(editor_buffers, path) = -1
    /\ \E buffers \in {[editor_buffers EXCEPT ![handle + 1].path = path]} :
          /\ editor_buffers' = buffers
          /\ \E c \in {[client EXCEPT !.diagnostics = on_save_buffer(@, buffers, handle)]} :
                /\ client' = Client_flush(c, buffers, server_docs).client
                /\ server_docs' = Client_flush(c, buffers, server_docs).docs
    /\ UNCHANGED <<next_uid, lsp_edit_count>>
    /\ ghostUnchanged

\* a buffer is closed; EditorEvent::BufferClose is handled while the buffer is
\* still in its slot, then the slot is emptied
LspCloseBuffer(handle) ==
    /\ BufferCollection_has(editor_buffers, handle)
    /\ IF ~client.initialized
       THEN UNCHANGED <<client, server_docs>>
       ELSE /\ client' = [client EXCEPT
                  !.versioned_buffers = VersionedBuffers_dispose(@, handle),
                  !.diagnostics = on_close_buffer(@, handle)]
            /\ server_docs' = send_did_close(client.server_capabilities, editor_buffers,
                                             server_docs, handle)
    /\ editor_buffers' = BufferCollection_remove(editor_buffers, handle)
    /\ UNCHANGED <<next_uid, lsp_edit_count>>
    /\ ghostUnchanged

\* Client::formatting: pending changes are flushed, then the request is sent
\* with the buffer's handle
LspFormatting(handle) ==
    /\ client.next_request_id <= MaxRequests
    /\ client.server_capabilities.formatting
    /\ BufferCollection_has(editor_buffers, handle)
    /\ editor_buffers[handle + 1].path # ""
    /\ LET f == Client_flush(client, editor_buffers, server_docs)
       IN /\ client' = Client_request(f.client, "textDocument/formatting", handle)
          /\ server_docs' = f.docs
    /\ request_origin' = Append(request_origin, editor_buffers[handle + 1].uid)
    /\ UNCHANGED <<editor_buffers, next_uid, lsp_edit_count, replied, last_reply,
                   formatting_applied, last_publish>>

\* Client::hover: pending changes are flushed, then the request is sent
\* without a buffer handle
LspHover(handle) ==
    /\ client.next_request_id <= MaxRequests
    /\ client.server_capabilities.hover
    /\ BufferCollection_has(editor_buffers, handle)
    /\ editor_buffers[handle + 1].path # ""
    /\ LET f == Client_flush(client, editor_buffers, server_docs)
       IN /\ client' = Client_request(f.client, "textDocument/hover", -1)
          /\ server_docs' = f.docs
    /\ request_origin' = Append(request_origin, editor_buffers[handle + 1].uid)
    /\ UNCHANGED <<editor_buffers, next_uid, lsp_edit_count, replied, last_reply,
                   formatting_applied, last_publish>>

\* BufferPosition::insert: where a position is once the text of the range
\* has been inserted; a position at or behind the start moves with the text
BufferPosition_insert(position, range) ==
    IF position.line < range.from.line THEN position
    ELSE IF position.line > range.from.line
    THEN Pos(position.line + range.to.line - range.from.line, position.col)
    ELSE IF position.col < range.from.col THEN position
    ELSE Pos(position.line + range.to.line - range.from.line,
             position.col + range.to.col - range.from.col)

\* BufferPosition::delete: where a position is once the range has been
\* deleted; a position inside the range falls on its start
BufferPosition_delete(position, range) ==
    IF position.line < range.from.line THEN position
    ELSE IF position.line > range.to.line
    THEN Pos(position.line - (range.to.line - range.from.line), position.col)
    ELSE IF position.line = range.from.line /\ position.col < range.from.col THEN position
    ELSE IF position.line = range.to.line /\ position.col > range.to.col
    THEN Pos(range.from.line, range.from.col + position.col - range.to.col)
    ELSE range.from

\* the inner loop of the formatting response: the range of an edit is moved
\* through the (deleted range, inserted range) pairs of the edits before it
RECURSIVE formatting_shift(_, _)
formatting_shift(range, formatting_edits) ==
    IF formatting_edits = <<>> THEN range
    ELSE LET d == Head(formatting_edits)[1]
             i == Head(formatting_edits)[2]
         IN formatting_shift(
                Rng(BufferPosition_insert(BufferPosition_delete(range.from, d), i),
                    BufferPosition_insert(BufferPosition_delete(range.to, d), i)),
                Tail(formatting_edits))

\* one turn of the outer loop of the formatting response: the shifted range
\* is deleted, the new text inserted at its start, the two buffer events
\* reach the versioned buffer, and the pair of ranges is pushed.
\* f is [buffers, versioned_buffers, formatting_edits].
formatting_apply_edit(f, handle, e) ==
    CHOOSE next \in UNION {
        {[buffers |-> [f.buffers EXCEPT ![handle + 1].content = r.lines],
          versioned_buffers |->
              IF e.new_text = <<>> THEN vb
              ELSE VersionedBuffers_add_edit(vb, handle,
                       Rng(r.range.from, r.range.from), e.new_text),
          formatting_edits |-> Append(f.formatting_edits, <<delete_range, r.range>>)] :
            r \in {content_insert_text(
                       content_delete_range(f.buffers[handle + 1].content,
                                            delete_range, FALSE).lines,
                       delete_range.from, e.new_text)},
            vb \in {IF delete_range.from = delete_range.to THEN f.versioned_buffers
                    ELSE VersionedBuffers_add_edit(f.versioned_buffers, handle,
                                                   delete_range, <<>>)}} :
        delete_range \in {formatting_shift(e.range, f.formatting_edits)}} : TRUE

\* the outer loop of the formatting response over the edits left
RECURSIVE formatting_apply_edits(_, _, _)
formatting_apply_edits(f, handle, edits) ==
    IF edits = <<>> THEN f
    ELSE CHOOSE out \in {formatting_apply_edits(next, handle, Tail(edits)) :
                            next \in {formatting_apply_edit(f, handle, Head(edits))}} : TRUE

\* Client::on_response, "textDocument/formatting": the buffer the stored
\* handle resolves to gets the edits of the result in their order
formatting_apply(w, handle, edits) ==
    IF edits = <<>> \/ ~BufferCollection_has(w.buffers, handle) THEN w
    ELSE CHOOSE out \in {[buffers |-> f.buffers, versioned_buffers |-> f.versioned_buffers] :
                            f \in {formatting_apply_edits(
                                      [buffers |-> w.buffers,
                                       versioned_buffers |-> w.versioned_buffers,
                                       formatting_edits |-> <<>>], handle, edits)}} : TRUE

\* Client::on_response: the pending request of the id is taken; an unknown id
\* and an error result end the call; else the method of the request decides.
\* st is [client, buffers, docs].
on_response(st, id, is_error, payload) ==
    LET index == PendingRequests_find(st.client.pending_requests, id)
        request == st.client.pending_requests[index]
        taken == [st EXCEPT !.client.pending_requests = PendingRequests_take(@, id)]
    IN IF index = 0 THEN st
       ELSE IF is_error THEN taken
       ELSE IF request.method = "initialize"
       THEN [taken EXCEPT !.client.server_capabilities = payload,
                          !.client.initialized = TRUE,
                          !.docs = send_did_open_all(payload, st.buffers, st.docs, 0)]
       ELSE IF request.method = "textDocument/formatting"
       THEN LET w == formatting_apply([buffers |-> st.buffers,
                                       versioned_buffers |-> st.client.versioned_buffers],
                                      request.buffer_handle, payload)
            IN [taken EXCEPT !.buffers = w.buffers,
                             !.client.versioned_buffers = w.versioned_buffers]
       ELSE taken

\* ClientManager::on_process_output for one message of the server: the body
\* is classified by parse_server_event; a Response goes to on_response, a
\* Request with no known method is answered with an error, a Notification
\* with no known method is dropped
dispatch_server_event(st, body) ==
    IF parse_server_event(body) = "Response"
    THEN on_response(st, body.id, FALSE, body.payload)
    ELSE IF parse_server_event(body) = "ResponseError"
    THEN on_response(st, body.id, TRUE, body.payload)
    ELSE st

\* the payloads a reply to the request can carry
ReplyPayloads(method, capabilities, edits) ==
    IF method = "initialize" THEN capabilities
    ELSE IF method = "textDocument/formatting" THEN edits
    ELSE {<<>>}

\* the buffer handle stored with the pending request of the id
request_handle(id) ==
    client.pending_requests[PendingRequests_find(client.pending_requests, id)].buffer_handle

\* the server's reply to the request with the id arrives: a result, a null
\* result or an error
LspReply(id, result, has_error, payload) ==
    /\ id \in 1..(client.next_request_id - 1)
    /\ id \notin replied
    /\ \E after \in {dispatch_server_event(
                          [client |-> client, buffers |-> editor_buffers, docs |-> server_docs],
                          Body(id, "", result, has_error, payload))} :
          /\ client' = after.client
          /\ editor_buffers' = after.buffers
          /\ server_docs' = after.docs
          /\ last_reply' = [id |-> id,
                            before |-> PendingRequests_count(client.pending_requests, id),
                            after |-> PendingRequests_count(after.client.pending_requests, id)]
          /\ formatting_applied' =
                IF after.buffers # editor_buffers
                THEN formatting_applied \cup
                        {[origin |-> request_origin[id],
                          target |-> editor_buffers[request_handle(id) + 1].uid]}
                ELSE formatting_applied
    /\ replied' = replied \cup {id}
    /\ UNCHANGED <<next_uid, lsp_edit_count, request_origin, last_publish>>

\* a textDocument/publishDiagnostics notification arrives
LspPublishDiagnostics(path, ds) ==
    /\ client' = [client EXCEPT !.diagnostics = publish_diagnostics(@, editor_buffers, path, ds)]
    /\ last_publish' = [path |-> path, diagnostics |-> ds]
    /\ UNCHANGED <<editor_buffers, next_uid, server_docs, lsp_edit_count, replied,
                   last_reply, request_origin, formatting_applied>>

\* what the server's replies and notifications carry in each specification
SyncCapabilities ==
    {c \in Capabilities_from_json :
        /\ ~c.formatting /\ ~c.hover
        /\ <<c.open_close, c.change, c.save>> \in
              {<<FALSE, "None", "None">>, <<TRUE, "Full", "Full">>,
               <<TRUE, "Incremental", "Incremental">>, <<TRUE, "Incremental", "None">>,
               <<TRUE, "Full", "Incremental">>}}

RequestCapabilities ==
    {c \in Capabilities_from_json :
        c.open_close /\ c.change = "Incremental" /\ c.save = "Incremental"}

FormattingEdits ==
    {<<>>, <<[range |-> Rng(Pos(0, 0), Pos(0, 0)), new_text |-> <<"f">>]>>,
     <<[range |-> Rng(Pos(0, 0), Pos(0, 1)), new_text |-> <<>>]>>}

\* formatting requests sent in the specification of the formatting response
MaxFormattingRequests == 1

\* the results of textDocument/formatting with up to two edits
FormattingEditLists ==
    SeqsUpTo({[range |-> r, new_text |-> t] :
                 r \in {x \in RangeSet : /\ x.from.line <= 1 /\ x.to.line <= 1
                                         /\ x.from.col <= 1 /\ x.to.col <= 1
                                         /\ PosLE(x.from, x.to)},
                 t \in {<<>>, <<"f">>, <<NL>>}}, 2)

FormattingCapabilities ==
    {c \in Capabilities_from_json :
        c.formatting /\ ~c.hover /\ c.open_close /\ c.change = "Incremental"
        /\ c.save = "Incremental"}

\* the ranges of the edits lie in the content: the server formats the
\* document it was sent
edits_in_content(lines, edits) ==
    \A i \in DOMAIN edits :
        /\ edits[i].range.from \in ValidPositions(lines)
        /\ edits[i].range.to \in ValidPositions(lines)
        /\ PosLE(edits[i].range.from, edits[i].range.to)

MaxDiagnostics == 2

DiagnosticLists ==
    SeqsUpTo({Diagnostic(<<"d", l>>, Rng(Pos(l, 0), Pos(l, 1))) : l \in {0, MaxLine}},
             MaxDiagnostics)

DiagnosticsCapabilities ==
    {c \in SyncCapabilities : c.change = "Incremental" /\ c.save = "Incremental"}

\* the method of the request the client sent with the id
request_origin_method(id) ==
    IF PendingRequests_find(client.pending_requests, id) = 0 THEN ""
    ELSE client.pending_requests[PendingRequests_find(client.pending_requests, id)].method

\* the server answers the initialize request
LspInitializeReply(capabilities) ==
    \E id \in 1..MaxRequests :
        /\ request_origin_method(id) = "initialize"
        /\ LspReply(id, "value", FALSE, capabilities)

\* the server answers a formatting request of a buffer that is still open
\* with edits of the buffer's content
LspFormattingReply(edits) ==
    \E id \in 1..MaxRequests :
        /\ request_origin_method(id) = "textDocument/formatting"
        /\ BufferCollection_has(editor_buffers, request_handle(id))
        /\ edits_in_content(editor_buffers[request_handle(id) + 1].content, edits)
        /\ LspReply(id, "value", FALSE, edits)

\* the replies the server can give to the requests sent
LspReplies(capabilities, edits) ==
    \E id \in 1..MaxRequests, result \in {"value", "null"}, has_error \in BOOLEAN :
        /\ id < client.next_request_id
        /\ \E payload \in ReplyPayloads(request_origin_method(id), capabilities, edits) :
              LspReply(id, result, has_error, payload)

(***************************************************************************)
(* lsp/protocol.rs: ReadBuf, the reader of `Content-Length` frames.  The   *)
(* record s holds the fields of ReadBuf and the two locals of              *)
(* read_content_from.  One step is one iteration of its loop.              *)
(***************************************************************************)
\* the initial length of ReadBuf::buf, scaled down from the source's 4 * 1024
ReadBufCapacity == 32

MaxFrames == 2

BodyLens == {1, 3, 12}

ZeroByte == "NUL"

Digits == <<"0", "1", "2", "3", "4", "5", "6", "7", "8", "9">>

ContentLengthPattern ==
    <<"C", "o", "n", "t", "e", "n", "t", "-", "L", "e", "n", "g", "t", "h", ":", " ">>

HeaderEndPattern == <<CR, NL, CR, NL>>

BodyLetters == <<"a", "b", "c", "d", "e", "f", "g", "h", "i", "j", "k", "l">>

\* the body of the k-th frame of a stream, n bytes that differ by position
FrameBody(k, n) == [j \in 1..n |-> BodyLetters[((j + 5 * k) % Len(BodyLetters)) + 1]]

RECURSIVE Decimal(_)
Decimal(n) == IF n < 10 THEN <<Digits[n + 1]>> ELSE Decimal(n \div 10) \o <<Digits[(n % 10) + 1]>>

\* a well-formed frame: header, blank line, body
Frame(body) == ContentLengthPattern \o Decimal(Len(body)) \o HeaderEndPattern \o body

RECURSIVE FramesBytes(_)
FramesBytes(bodies) ==
    IF bodies = <<>> THEN <<>> ELSE Frame(Head(bodies)) \o FramesBytes(Tail(bodies))

\* find_pattern_end: the index after the first occurrence, -1 for None
find_pattern_end(bytes, pattern) ==
    LET len == Len(pattern)
        hits == {p \in 0..(Len(bytes) - len) : SubSeq(bytes, p + 1, p + len) = pattern}
    IN IF hits = {} THEN -1 ELSE (CHOOSE p \in hits : \A q \in hits : p <= q) + len

is_ascii_digit(b) == \E d \in 1..10 : Digits[d] = b

RECURSIVE parse_number_from(_, _)
parse_number_from(bytes, n) ==
    IF bytes = <<>> \/ ~is_ascii_digit(Head(bytes)) THEN n
    ELSE parse_number_from(Tail(bytes),
                           n * 10 + (CHOOSE d \in 0..9 : Digits[d + 1] = Head(bytes)))

\* parse_number
parse_number(bytes) == parse_number_from(bytes, 0)

\* ReadBuf::new
ReadBuf_new ==
    [buf |-> Repeat(ZeroByte, ReadBufCapacity), read_index |-> 0, write_index |-> 0,
     content_start_index |-> 0, content_end_index |-> 0]

\* the head of the loop: the header is searched while content_end_index is 0
ReadBuf_find_header(s) ==
    LET bytes == SubSeq(s.buf, s.read_index + 1, s.write_index)
        cl_index == find_pattern_end(bytes, ContentLengthPattern)
        c_index == IF cl_index < 0 THEN -1
                   ELSE find_pattern_end(Drop(bytes, cl_index), HeaderEndPattern)
    IN IF s.content_end_index # 0 \/ cl_index < 0 \/ c_index < 0 THEN s
       ELSE [s EXCEPT
               !.content_start_index = s.read_index + cl_index + c_index,
               !.content_end_index = s.read_index + cl_index + c_index
                                        + parse_number(Drop(bytes, cl_index))]

\* the frame is complete: the loop breaks
ReadBuf_complete(s) == s.content_end_index > 0 /\ s.write_index >= s.content_end_index

\* a compaction that forgets to move the content indexes with the bytes
ReadBuf_compact_unadjusted(s) ==
    [s EXCEPT
        !.buf = [i \in 1..Len(s.buf) |->
                    IF i <= s.write_index - s.read_index THEN s.buf[s.read_index + i]
                    ELSE s.buf[i]],
        !.write_index = @ - s.read_index,
        !.read_index = 0]

\* the compaction branch: the unread bytes are copied to the front
ReadBuf_compact(s) ==
    [s EXCEPT
        !.buf = [i \in 1..Len(s.buf) |->
                    IF i <= s.write_index - s.read_index THEN s.buf[s.read_index + i]
                    ELSE s.buf[i]],
        !.content_start_index = IF s.content_end_index > 0 THEN @ - s.read_index ELSE @,
        !.content_end_index = IF s.content_end_index > 0 THEN @ - s.read_index ELSE @,
        !.write_index = @ - s.read_index,
        !.read_index = 0]

\* the growth loop: the length doubles while the buffer is full or the
\* content does not fit
RECURSIVE ReadBuf_grow(_)
ReadBuf_grow(s) ==
    IF s.write_index = Len(s.buf) \/ s.content_end_index > Len(s.buf)
    THEN ReadBuf_grow([s EXCEPT !.buf = @ \o Repeat(ZeroByte, Len(s.buf))])
    ELSE s

\* reader.read returned Ok(len) with the bytes of chunk
ReadBuf_read(s, chunk) ==
    [s EXCEPT !.buf = [i \in 1..Len(s.buf) |->
                          IF i > s.write_index /\ i <= s.write_index + Len(chunk)
                          THEN chunk[i - s.write_index] ELSE s.buf[i]],
              !.write_index = @ + Len(chunk)]

\* after the loop: the read index moves past the content; both indexes are
\* reset when nothing is left
ReadBuf_finish(s) ==
    IF s.write_index = s.content_end_index
    THEN [s EXCEPT !.read_index = 0, !.write_index = 0]
    ELSE [s EXCEPT !.read_index = s.content_end_index]

\* the slice read_content_from returns
ReadBuf_content(s) == SubSeq(s.buf, s.content_start_index + 1, s.content_end_index)

VARIABLES rb, rb_pc, rb_stream, rb_frames, rb_returned, rb_compacted, rb_grew

rbVars == <<rb, rb_pc, rb_stream, rb_frames, rb_returned, rb_compacted, rb_grew>>

\* the streams: one to MaxFrames well-formed frames
FrameStreams ==
    UNION {{[k \in 1..n |-> FrameBody(k, lens[k])] : lens \in [1..n -> BodyLens]} :
              n \in 1..MaxFrames}

RbInit ==
    /\ rb = ReadBuf_new
    /\ rb_pc = "idle"
    /\ rb_frames \in FrameStreams
    /\ rb_stream = FramesBytes(rb_frames)
    /\ rb_returned = <<>>
    /\ rb_compacted = FALSE
    /\ rb_grew = FALSE

\* read_content_from is called: the two locals start at 0
RbCall ==
    /\ rb_pc = "idle"
    /\ rb' = [rb EXCEPT !.content_start_index = 0, !.content_end_index = 0]
    /\ rb_pc' = "loop"
    /\ UNCHANGED <<rb_stream, rb_frames, rb_returned, rb_compacted, rb_grew>>

\* an iteration that finds the frame complete: the call returns its content
RbReturn ==
    /\ rb_pc = "loop"
    /\ \E s \in {ReadBuf_find_header(rb)} :
          /\ ReadBuf_complete(s)
          /\ rb' = ReadBuf_finish(s)
          /\ rb_returned' = Append(rb_returned, ReadBuf_content(s))
    /\ rb_pc' = "idle"
    /\ UNCHANGED <<rb_stream, rb_frames, rb_compacted, rb_grew>>

\* an iteration that compacts the buffer
RbCompact ==
    /\ rb_pc = "loop"
    /\ \E s \in {ReadBuf_find_header(rb)} :
          /\ ~ReadBuf_complete(s)
          /\ s.read_index > Len(s.buf) \div 2
          /\ rb' = ReadBuf_compact(s)
    /\ rb_compacted' = TRUE
    /\ UNCHANGED <<rb_pc, rb_stream, rb_frames, rb_returned, rb_grew>>

\* an iteration that grows the buffer as needed and reads: the reader
\* delivers the next len bytes of the stream, as many as it likes
RbRead(len) ==
    /\ rb_pc = "loop"
    /\ \E s \in {ReadBuf_find_header(rb)} :
          /\ ~ReadBuf_complete(s)
          /\ ~(s.read_index > Len(s.buf) \div 2)
          /\ \E g \in {ReadBuf_grow(s)} :
                /\ len <= Len(g.buf) - g.write_index
                /\ len <= Len(rb_stream)
                /\ rb' = ReadBuf_read(g, Take(rb_stream, len))
                /\ rb_grew' = (rb_grew \/ Len(g.buf) > Len(s.buf))
    /\ rb_stream' = Drop(rb_stream, len)
    /\ UNCHANGED <<rb_pc, rb_frames, rb_returned, rb_compacted>>

(***************************************************************************)
(* pepper/src/editor_utils.rs: ResidualStrBytes.  Bytes are numbers        *)
(* 0..255; a str is the sequence of its UTF-8 bytes.                       *)
(***************************************************************************)

\* the most characters of a streamed message
MaxChars == 2

\* b as i8
AsI8(b) == IF b < 128 THEN b ELSE b - 256

is_char_boundary(b) == AsI8(b) >= -64

\* std::mem::size_of::<char>()
size_of_char == 4

\* the characters of the messages: a, e-acute, the euro sign, an emoji
Utf8Chars == {<<97>>, <<195, 169>>, <<226, 130, 172>>, <<240, 159, 152, 128>>}

IsContinuation(b) == b >= 128 /\ b <= 191

\* the length of the well-formed UTF-8 sequence that starts bs, 0 when
\* there is none
Utf8CharLen(bs) ==
    IF bs = <<>> THEN 0
    ELSE IF bs[1] < 128 THEN 1
    ELSE IF bs[1] >= 194 /\ bs[1] <= 223
        THEN IF Len(bs) >= 2 /\ IsContinuation(bs[2]) THEN 2 ELSE 0
    ELSE IF bs[1] >= 224 /\ bs[1] <= 239
        THEN IF /\ Len(bs) >= 3
                /\ IsContinuation(bs[2])
                /\ IsContinuation(bs[3])
                /\ (bs[1] = 224 => bs[2] >= 160)
                /\ (bs[1] = 237 => bs[2] <= 159)
             THEN 3 ELSE 0
    ELSE IF bs[1] >= 240 /\ bs[1] <= 244
        THEN IF /\ Len(bs) >= 4
                /\ IsContinuation(bs[2])
                /\ IsContinuation(bs[3])
                /\ IsContinuation(bs[4])
                /\ (bs[1] = 240 => bs[2] >= 144)
                /\ (bs[1] = 244 => bs[2] <= 143)
             THEN 4 ELSE 0
    ELSE 0

RECURSIVE Utf8Valid(_)
Utf8Valid(bs) ==
    IF bs = <<>> THEN TRUE
    ELSE IF Utf8CharLen(bs) = 0 THEN FALSE
    ELSE Utf8Valid(Drop(bs, Utf8CharLen(bs)))

\* std::str::from_utf8(bs).unwrap_or("")
from_utf8_or_empty(bs) == IF Utf8Valid(bs) THEN bs ELSE <<>>

ResidualStrBytes_default == [bytes |-> Repeat(0, size_of_char), len |-> 0]

\* the first loop of receive_bytes: leading continuation bytes join the
\* residue; the result is the residue and the bytes left
RECURSIVE receive_bytes_take(_, _)
receive_bytes_take(self, bytes) ==
    IF bytes = <<>> \/ is_char_boundary(bytes[1]) THEN [self |-> self, bytes |-> bytes]
    ELSE IF self.len = size_of_char THEN [self |-> [self EXCEPT !.len = 0], bytes |-> bytes]
    ELSE receive_bytes_take([bytes |-> [self.bytes EXCEPT ![self.len + 1] = bytes[1]],
                             len |-> self.len + 1],
                            Tail(bytes))

\* the second loop: the index of the last char boundary of bytes, 0 when
\* there is none
RECURSIVE receive_bytes_split(_, _)
receive_bytes_split(bytes, len) ==
    IF len = 0 THEN 0
    ELSE IF is_char_boundary(bytes[len]) THEN len - 1
    ELSE receive_bytes_split(bytes, len - 1)

\* the rest of receive_bytes, from `*buf = self.bytes`
receive_bytes_emit(self, bytes, len) ==
    IF size_of_char < Len(bytes) - len
    THEN [self |-> [self EXCEPT !.len = 0], before |-> <<>>, after |-> <<>>]
    ELSE [self |-> [bytes |-> [i \in 1..size_of_char |->
                                  IF i <= Len(bytes) - len THEN bytes[len + i]
                                  ELSE self.bytes[i]],
                    len |-> Len(bytes) - len],
          before |-> from_utf8_or_empty(Take(self.bytes, self.len)),
          after |-> from_utf8_or_empty(Take(bytes, len))]

receive_bytes_rest(t) ==
    receive_bytes_emit(t.self, t.bytes, receive_bytes_split(t.bytes, Len(t.bytes)))

\* ResidualStrBytes::receive_bytes: the new residue and the two strs
receive_bytes(self, bytes) == receive_bytes_rest(receive_bytes_take(self, bytes))

RECURSIVE Utf8Messages(_)
Utf8Messages(n) ==
    IF n = 0 THEN {<<>>}
    ELSE Utf8Messages(n - 1) \cup
         {m \o c : m \in Utf8Messages(n - 1), c \in Utf8Chars}

VARIABLES residue, rs_message, rs_stream, rs_chunks, rs_out, rs_flushed

rsVars == <<residue, rs_message, rs_stream, rs_chunks, rs_out, rs_flushed>>

RsInit ==
    /\ residue = ResidualStrBytes_default
    /\ rs_message \in Utf8Messages(MaxChars)
    /\ rs_stream = rs_message
    /\ rs_chunks = <<>>
    /\ rs_out = <<>>
    /\ rs_flushed = FALSE

\* receive_bytes is called with the next n bytes of the message
RsReceive(n) ==
    /\ n <= Len(rs_stream)
    /\ \E r \in {receive_bytes(residue, Take(rs_stream, n))} :
          /\ residue' = r.self
          /\ rs_out' = rs_out \o r.before \o r.after
    /\ rs_chunks' = Append(rs_chunks, Take(rs_stream, n))
    /\ rs_stream' = Drop(rs_stream, n)
    /\ UNCHANGED <<rs_message, rs_flushed>>

\* after the last byte, receive_bytes is called with no bytes
RsFlush ==
    /\ rs_stream = <<>>
    /\ ~rs_flushed
    /\ \E r \in {receive_bytes(residue, <<>>)} :
          /\ residue' = r.self
          /\ rs_out' = rs_out \o r.before \o r.after
    /\ rs_chunks' = Append(rs_chunks, <<>>)
    /\ rs_flushed' = TRUE
    /\ UNCHANGED <<rs_message, rs_stream>>

(***************************************************************************)
(* platforms/linux.rs: the process table of run_server.  Process lives in  *)
(* unix_utils, which is not part of the sources at hand: a process is its  *)
(* tag, and the results of its read and write are the caller's cases.      *)
(***************************************************************************)

\* the slots of the process table (42 in the source)
MAX_PROCESS_COUNT == 2

\* the most SpawnProcess requests
MaxSpawns == 3

\* the most events sent to the application
MaxEvents == 4

NONE_PROCESS == [some |-> FALSE, tag |-> 0, input_open |-> FALSE]

Process_new(tag) == [some |-> TRUE, tag |-> tag, input_open |-> TRUE]

\* Process::read: nothing to read, the end of the output (an empty
\* buffer), some output, an error
Process_read_results == {"OkNone", "OkEmpty", "OkOutput", "Err"}

\* Process::write
Process_write_results == BOOLEAN

ProcessHandles == 0..(MAX_PROCESS_COUNT - 1)

ProcessSpawned(tag, handle) == [kind |-> "ProcessSpawned", tag |-> tag, handle |-> handle]

ProcessOutput(tag) == [kind |-> "ProcessOutput", tag |-> tag, handle |-> 0]

ProcessExit(tag) == [kind |-> "ProcessExit", tag |-> tag, handle |-> 0]

VARIABLES processes, epoll, events, spawn_count

psVars == <<processes, epoll, events, spawn_count>>

PsInit ==
    /\ processes = [i \in ProcessHandles |-> NONE_PROCESS]
    /\ epoll = {}
    /\ events = <<>>
    /\ spawn_count = 0

\* the free slots of the table and the first of them
free_slots == {i \in ProcessHandles : ~processes[i].some}

first_free_slot == CHOOSE i \in free_slots : \A j \in free_slots : i <= j

\* the slot's process ends: out of the epoll set, killed, the slot emptied,
\* ProcessExit sent
process_exit(index) ==
    /\ epoll' = epoll \ {index}
    /\ processes' = [processes EXCEPT ![index] = NONE_PROCESS]
    /\ events' = Append(events, ProcessExit(processes[index].tag))

\* PlatformRequest::SpawnProcess; spawned is the result of command.spawn()
PsSpawnProcess(spawned) ==
    /\ spawn_count < MaxSpawns
    /\ Len(events) < MaxEvents
    /\ spawn_count' = spawn_count + 1
    /\ IF free_slots = {} THEN UNCHANGED <<processes, epoll, events>>
       ELSE \E i \in {first_free_slot} :
               IF spawned
               THEN /\ processes' = [processes EXCEPT ![i] = Process_new(spawn_count + 1)]
                    /\ epoll' = epoll \cup {i}
                    /\ events' = Append(events, ProcessSpawned(spawn_count + 1, i))
               ELSE /\ events' = Append(events, ProcessExit(spawn_count + 1))
                    /\ UNCHANGED <<processes, epoll>>

\* PlatformRequest::WriteToProcess; written is the result of process.write
PsWriteToProcess(handle, written) ==
    /\ Len(events) < MaxEvents
    /\ IF processes[handle].some /\ ~written
       THEN process_exit(handle)
       ELSE UNCHANGED <<processes, epoll, events>>
    /\ UNCHANGED spawn_count

\* PlatformRequest::CloseProcessInput
PsCloseProcessInput(handle) ==
    /\ processes' = [processes EXCEPT ![handle] =
                        IF @.some THEN [@ EXCEPT !.input_open = FALSE] ELSE @]
    /\ UNCHANGED <<epoll, events, spawn_count>>

\* PlatformRequest::KillProcess
PsKillProcess(handle) ==
    /\ Len(events) < MaxEvents
    /\ IF processes[handle].some
       THEN process_exit(handle)
       ELSE UNCHANGED <<processes, epoll, events>>
    /\ UNCHANGED spawn_count

\* epoll reports the stream of slot index; result is what process.read gives
PsProcessEvent(index, result) ==
    /\ index \in epoll
    /\ Len(events) < MaxEvents
    /\ IF ~processes[index].some \/ result = "OkNone"
       THEN UNCHANGED <<processes, epoll, events>>
       ELSE IF result = "OkEmpty"
       THEN /\ events' = Append(events, ProcessExit(processes[index].tag))
            /\ UNCHANGED <<processes, epoll>>
       ELSE IF result = "OkOutput"
       THEN /\ events' = Append(events, ProcessOutput(processes[index].tag))
            /\ UNCHANGED <<processes, epoll>>
       ELSE process_exit(index)
    /\ UNCHANGED spawn_count

(***************************************************************************)
(* pepper/src/platform.rs: PooledBuf and BufPool, and the paths of         *)
(* run_server (platforms/linux.rs) that acquire or receive a buffer.  A    *)
(* buffer is its number.  The application that takes the events and sends  *)
(* the write requests is not part of the sources at hand: it releases the  *)
(* buffer of an event and acquires the buffer of a request.                *)
(***************************************************************************)

\* the most buffers ever made
MaxBufs == 4

\* the most buffers in events or in requests at a time
MaxInFlight == 2

VARIABLES buf_pool, bufs_made, event_bufs, request_bufs, dropped_bufs

bpVars == <<buf_pool, bufs_made, event_bufs, request_bufs, dropped_bufs>>

BufPool_default == <<>>

\* BufPool::acquire: the buffer handed out (a new one when the pool is
\* empty), the pool left and the count of buffers made
BufPool_acquire(pool, made) ==
    IF pool # <<>>
    THEN [buf |-> pool[Len(pool)], pool |-> Take(pool, Len(pool) - 1), made |-> made]
    ELSE [buf |-> made + 1, pool |-> pool, made |-> made + 1]

BufPool_release(pool, buf) == Append(pool, buf)

\* impl Drop for PooledBuf: panic!("buf was dropped outside of a pool")
PooledBuf_drop(dropped, buf) == dropped \cup {buf}

BpInit ==
    /\ buf_pool = BufPool_default
    /\ bufs_made = 0
    /\ event_bufs = <<>>
    /\ request_bufs = <<>>
    /\ dropped_bufs = {}

\* a client connection is ready: a buffer is acquired and read into; read
\* is the result of connection.read, "Ok" standing for Ok(len) with len > 0
BpConnectionEvent(read) ==
    /\ dropped_bufs = {}
    /\ Len(event_bufs) < MaxInFlight
    /\ \E a \in {BufPool_acquire(buf_pool, bufs_made)} :
          /\ a.made <= MaxBufs
          /\ buf_pool' = a.pool
          /\ bufs_made' = a.made
          /\ IF read = "Ok"
             THEN event_bufs' = Append(event_bufs, a.buf) /\ UNCHANGED dropped_bufs
             ELSE dropped_bufs' = PooledBuf_drop(dropped_bufs, a.buf) /\ UNCHANGED event_bufs
    /\ UNCHANGED request_bufs

\* PlatformRequest::WriteToClient { handle, buf } is served: the bytes are
\* written, or the connection is closed when the write fails, and the arm
\* ends with buf still owned by it
BpWriteToClient(written) ==
    /\ dropped_bufs = {}
    /\ request_bufs # <<>>
    /\ request_bufs' = Tail(request_bufs)
    /\ dropped_bufs' = PooledBuf_drop(dropped_bufs, Head(request_bufs))
    /\ UNCHANGED <<buf_pool, bufs_made, event_bufs>>

\* the application is done with the buffer of an event
BpApplicationRelease ==
    /\ dropped_bufs = {}
    /\ event_bufs # <<>>
    /\ buf_pool' = BufPool_release(buf_pool, Head(event_bufs))
    /\ event_bufs' = Tail(event_bufs)
    /\ UNCHANGED <<bufs_made, request_bufs, dropped_bufs>>

\* the application acquires a buffer and sends it in a write request
BpApplicationRequest ==
    /\ dropped_bufs = {}
    /\ Len(request_bufs) < MaxInFlight
    /\ \E a \in {BufPool_acquire(buf_pool, bufs_made)} :
          /\ a.made <= MaxBufs
          /\ buf_pool' = a.pool
          /\ bufs_made' = a.made
          /\ request_bufs' = Append(request_bufs, a.buf)
    /\ UNCHANGED <<event_bufs, dropped_bufs>>

(***************************************************************************)
(* Specification SpecContent: a BufferContent as its constructors leave    *)
(* it, under insert_text and delete_range.                                 *)
(***************************************************************************)
\* BufferContent::empty: `lines: Vec::new()`
BufferContent_empty == <<>>

VARIABLES bc_lines, bc_panicked, bc_edits

bcVars == <<bc_lines, bc_panicked, bc_edits>>

BcInit ==
    /\ bc_lines \in {BufferContent_empty} \cup {content_from_str(t) : t \in InitialTexts}
    /\ bc_panicked = FALSE
    /\ bc_edits = 0

\* BufferContent::insert_text; with no line clamp_position computes
\* line_count() - 1 and indexes the lines, which panics
BcInsertText(position, text) ==
    /\ ~bc_panicked /\ bc_edits < MaxEdits
    /\ IF bc_lines = <<>>
       THEN bc_panicked' = TRUE /\ UNCHANGED bc_lines
       ELSE /\ bc_lines' = content_insert_text(bc_lines, position, text).lines
            /\ UNCHANGED bc_panicked
    /\ bc_edits' = bc_edits + 1

\* BufferContent::delete_range
BcDeleteRange(range) ==
    /\ ~bc_panicked /\ bc_edits < MaxEdits
    /\ IF bc_lines = <<>>
       THEN bc_panicked' = TRUE /\ UNCHANGED bc_lines
       ELSE \E d \in {content_delete_range(bc_lines, range, FALSE)} :
               /\ bc_lines' = d.lines
               /\ bc_panicked' = d.text.panic
    /\ bc_edits' = bc_edits + 1

(***************************************************************************)
(* command.rs (edit, close), editor.rs (on_client_joined, on_event) and    *)
(* BufferCollection::remove_where: clients, buffer views and buffers.      *)
(* BufferViewCollection and ClientCollection are not part of the sources   *)
(* at hand: a collection is a sequence of slots and a handle the index of  *)
(* a slot.  Client 0 is TargetClient::Local.                               *)
(***************************************************************************)

\* the most remote clients
MaxClients == 2

\* the most slots of the view collection
MaxViews == 3

NoView == [some |-> FALSE, buffer_handle |-> 0, target_client |-> 0]

\* BufferView::new
BufferView_new(target_client, buffer_handle) ==
    [some |-> TRUE, buffer_handle |-> buffer_handle, target_client |-> target_client]

\* BufferViewCollection::add: the views and the handle of the added view
BufferViewCollection_add(views, view) ==
    IF \E i \in 1..Len(views) : ~views[i].some
    THEN \* the first free slot
         [views |-> [views EXCEPT ![CHOOSE i \in 1..Len(views) :
                                       ~views[i].some /\ \A j \in 1..(i - 1) : views[j].some]
                                   = view],
          handle |-> (CHOOSE i \in 1..Len(views) :
                         ~views[i].some /\ \A j \in 1..(i - 1) : views[j].some) - 1]
    ELSE [views |-> Append(views, view), handle |-> Len(views)]

\* BufferViewCollection::get finds a view
BufferViewCollection_has(views, handle) ==
    handle >= 0 /\ handle < Len(views) /\ views[handle + 1].some

\* BufferViewCollection::remove_where(|view| view.buffer_handle == handle)
BufferViewCollection_remove_buffer(views, buffer_handle) ==
    [i \in 1..Len(views) |->
        IF views[i].some /\ views[i].buffer_handle = buffer_handle THEN NoView ELSE views[i]]

\* the handle of the first view of the buffer for the client, -1 for none
find_view(views, buffer_handle, target_client) ==
    IF \E i \in 1..Len(views) : views[i] = BufferView_new(target_client, buffer_handle)
    THEN (CHOOSE i \in 1..Len(views) :
             /\ views[i] = BufferView_new(target_client, buffer_handle)
             /\ \A j \in 1..(i - 1) : views[j] # BufferView_new(target_client, buffer_handle)) - 1
    ELSE -1

VARIABLES cv_buffers, cv_views, cv_current, cv_joined, focused_client

cvVars == <<cv_buffers, cv_views, cv_current, cv_joined, focused_client>>

ClientIds == 0..MaxClients

\* no client has joined; the local client has no view (-1 is None)
CvInit ==
    /\ cv_buffers = <<>>
    /\ cv_views = <<>>
    /\ cv_current = [c \in ClientIds |-> -1]
    /\ cv_joined = {0}
    /\ focused_client = 0

\* Editor::on_client_joined: the view of the focused client is cloned for
\* the new target and the focused client's handle is set to the clone
CvClientJoined(target) ==
    /\ target \notin cv_joined
    /\ cv_joined' = cv_joined \cup {target}
    /\ IF BufferViewCollection_has(cv_views, cv_current[focused_client])
       THEN /\ Len(cv_views) < MaxViews
            /\ \E a \in {BufferViewCollection_add(cv_views,
                            BufferView_new(target,
                                cv_views[cv_current[focused_client] + 1].buffer_handle))} :
                  /\ cv_views' = a.views
                  /\ cv_current' = [cv_current EXCEPT ![focused_client] = a.handle]
       ELSE /\ cv_current' = [cv_current EXCEPT ![focused_client] = -1]
            /\ UNCHANGED cv_views
    /\ UNCHANGED <<cv_buffers, focused_client>>

\* Editor::on_event, ClientEvent::Key: the client that types gets the focus
CvKey(target) ==
    /\ target \in cv_joined
    /\ focused_client' = target
    /\ UNCHANGED <<cv_buffers, cv_views, cv_current, cv_joined>>

\* commands::edit (helper::new_buffer_from_file) for a client
CvOpen(target, path) ==
    /\ target \in cv_joined
    /\ Len(cv_views) < MaxViews
    /\ \E bs \in {IF find_buffer_with_path(cv_buffers, path) >= 0 THEN cv_buffers
                  ELSE BufferCollection_add(cv_buffers,
                           [open |-> TRUE, uid |-> 0, path |-> path, content |-> <<<<>>>>])} :
          /\ cv_buffers' = bs
          /\ \E b \in {find_buffer_with_path(bs, path)} :
                IF find_view(cv_views, b, target) >= 0
                THEN /\ cv_current' = [cv_current EXCEPT ![target] = find_view(cv_views, b, target)]
                     /\ UNCHANGED cv_views
                ELSE \E a \in {BufferViewCollection_add(cv_views, BufferView_new(target, b))} :
                        /\ cv_views' = a.views
                        /\ cv_current' = [cv_current EXCEPT ![target] = a.handle]
    /\ UNCHANGED <<cv_joined, focused_client>>

\* commands::close for a client: its handle is taken and every view of the
\* buffer is removed; buffer_views.get panics on a handle without a view
CvClose(target) ==
    /\ target \in cv_joined
    /\ cv_current[target] = -1 \/ BufferViewCollection_has(cv_views, cv_current[target])
    /\ cv_current' = [cv_current EXCEPT ![target] = -1]
    /\ cv_views' = IF cv_current[target] = -1 THEN cv_views
                   ELSE BufferViewCollection_remove_buffer(cv_views,
                            cv_views[cv_current[target] + 1].buffer_handle)
    /\ UNCHANGED <<cv_buffers, cv_joined, focused_client>>

\* BufferCollection::remove_where, called for the buffers no view shows
CvRemoveBuffers ==
    /\ cv_buffers' = [i \in 1..Len(cv_buffers) |->
                         IF \E v \in 1..Len(cv_views) :
                               cv_views[v].some /\ cv_views[v].buffer_handle = i - 1
                         THEN cv_buffers[i] ELSE NoBuffer]
    /\ UNCHANGED <<cv_views, cv_current, cv_joined, focused_client>>

(***************************************************************************)
(* buffer.rs: the word database under Buffer::new, insert_text,            *)
(* delete_range, undo, redo (history_edits) and remove_where.  The word    *)
(* database, the word iterator and History are not part of the sources at  *)
(* hand: the database maps a word to its count, a word is a run of         *)
(* identifier characters, and the history is the list of the edits made,   *)
(* every edit a group of its own, with the count of those not undone.      *)
(***************************************************************************)

\* the most edits, undos and redos of a run
MaxWordSteps == 3

is_identifier(c) == c \in {"a", "b"}

\* WordIter::new(line).of_kind(WordKind::Identifier): the identifiers of a line
RECURSIVE line_words_from(_, _, _, _)
line_words_from(line, i, word, acc) ==
    IF i > Len(line) THEN (IF word = <<>> THEN acc ELSE Append(acc, word))
    ELSE line_words_from(line, i + 1,
                         IF is_identifier(line[i]) THEN Append(word, line[i]) ELSE <<>>,
                         IF is_identifier(line[i]) \/ word = <<>> THEN acc
                         ELSE Append(acc, word))

line_words(line) == line_words_from(line, 1, <<>>, <<>>)

\* the identifiers of the lines first..last (1-based), those there are
RECURSIVE lines_words(_, _, _)
lines_words(lines, first, last) ==
    IF first > last \/ first > Len(lines) THEN <<>>
    ELSE line_words(lines[first]) \o lines_words(lines, first + 1, last)

WordDatabase_new == <<>>

\* WordDatabase::add_word; the database is a sequence of [word, count]
WordDatabase_add_word(db, word) ==
    IF \E i \in 1..Len(db) : db[i].word = word
    THEN [i \in 1..Len(db) |->
             IF db[i].word = word THEN [db[i] EXCEPT !.count = @ + 1] ELSE db[i]]
    ELSE Append(db, [word |-> word, count |-> 1])

\* WordDatabase::remove_word
WordDatabase_remove_word(db, word) ==
    [i \in 1..Len(db) |->
        IF db[i].word = word /\ db[i].count > 0 THEN [db[i] EXCEPT !.count = @ - 1]
        ELSE db[i]]

RECURSIVE add_words(_, _)
add_words(db, words) ==
    IF words = <<>> THEN db
    ELSE add_words(WordDatabase_add_word(db, Head(words)), Tail(words))

RECURSIVE remove_words(_, _)
remove_words(db, words) ==
    IF words = <<>> THEN db
    ELSE remove_words(WordDatabase_remove_word(db, Head(words)), Tail(words))

\* the count the database holds for a word
word_count(db, word) ==
    IF \E i \in 1..Len(db) : db[i].word = word
    THEN db[CHOOSE i \in 1..Len(db) : db[i].word = word].count
    ELSE 0

\* History::add_edit: the edits that were undone are dropped
History_add_edit(h, edit) ==
    [edits |-> Append(Take(h.edits, h.done), edit), done |-> h.done + 1]

\* the edit that undoes an edit
History_inverse(edit) ==
    [edit EXCEPT !.kind = IF edit.kind = "Insert" THEN "Delete" ELSE "Insert"]

\* the range with both ends clamped to the content
clamped_range(lines, range) ==
    Rng(clamp_position(lines, range.from), clamp_position(lines, range.to))

WordTexts == {<<"a">>, <<" ">>, <<NL>>, <<"a", " ", "b">>}

WordInitialTexts == {<<>>, <<"a", " ", "b">>, <<"a", NL, "a">>}

VARIABLES wd_lines, wd_live, word_database, wd_history, wd_steps

wdVars == <<wd_lines, wd_live, word_database, wd_history, wd_steps>>

\* Buffer::new adds the identifiers of the content
WdInit ==
    /\ wd_lines \in {content_from_str(t) : t \in WordInitialTexts}
    /\ wd_live = TRUE
    /\ word_database = add_words(WordDatabase_new, lines_words(wd_lines, 1, Len(wd_lines)))
    /\ wd_history = [edits |-> <<>>, done |-> 0]
    /\ wd_steps = 0

\* Buffer::insert_text at a position of the content
WdInsertText(position, text) ==
    /\ wd_live /\ wd_steps < MaxWordSteps
    /\ position = clamp_position(wd_lines, position)
    /\ text # <<>>
    /\ \E r \in {content_insert_text(wd_lines, position, text)} :
          /\ wd_lines' = r.lines
          /\ word_database' =
                add_words(remove_words(word_database, line_words(wd_lines[position.line + 1])),
                          lines_words(r.lines, r.range.from.line + 1, r.range.to.line + 1))
          /\ wd_history' = History_add_edit(wd_history, Edit("Insert", r.range, text))
    /\ wd_steps' = wd_steps + 1
    /\ UNCHANGED wd_live

\* Buffer::delete_range of a range of the content
WdDeleteRange(range) ==
    /\ wd_live /\ wd_steps < MaxWordSteps
    /\ range = clamped_range(wd_lines, range)
    /\ range.from # range.to
    /\ \E d \in {content_delete_range(wd_lines, range, FALSE)} :
          /\ wd_lines' = d.lines
          /\ word_database' =
                add_words(remove_words(word_database,
                              lines_words(wd_lines, range.from.line + 1, range.to.line + 1)),
                          line_words(d.lines[range.from.line + 1]))
          /\ wd_history' = History_add_edit(wd_history, Edit("Delete", range, d.text.s))
    /\ wd_steps' = wd_steps + 1
    /\ UNCHANGED wd_live

\* Buffer::undo: history_edits applies the inverse of the last edit to the
\* content; it is given no word database
WdUndo ==
    /\ wd_live /\ wd_steps < MaxWordSteps
    /\ wd_history.done > 0
    /\ wd_lines' = Edit_apply([lines |-> wd_lines, panic |-> FALSE],
                              History_inverse(wd_history.edits[wd_history.done]), FALSE).lines
    /\ wd_history' = [wd_history EXCEPT !.done = @ - 1]
    /\ wd_steps' = wd_steps + 1
    /\ UNCHANGED <<wd_live, word_database>>

\* Buffer::redo
WdRedo ==
    /\ wd_live /\ wd_steps < MaxWordSteps
    /\ wd_history.done < Len(wd_history.edits)
    /\ wd_lines' = Edit_apply([lines |-> wd_lines, panic |-> FALSE],
                              wd_history.edits[wd_history.done + 1], FALSE).lines
    /\ wd_history' = [wd_history EXCEPT !.done = @ + 1]
    /\ wd_steps' = wd_steps + 1
    /\ UNCHANGED <<wd_live, word_database>>

\* BufferCollection::remove_where: the identifiers of the lines are removed
WdRemoveBuffer ==
    /\ wd_live
    /\ wd_live' = FALSE
    /\ word_database' = remove_words(word_database, lines_words(wd_lines, 1, Len(wd_lines)))
    /\ UNCHANGED <<wd_lines, wd_history, wd_steps>>

(***************************************************************************)
(* lib/command.rs: CommandTokenIter and CommandManager::parse.  A text is  *)
(* a sequence of characters; a token is [kind, token, rest] and kind       *)
(* "None" stands for the end of the tokens.                                *)
(***************************************************************************)
MAX_REQUIRED_VALUES_LEN == 4

MAX_OTHER_VALUES_LEN == 8

MAX_FLAGS_LEN == 8

\* char::is_ascii_whitespace
is_ascii_whitespace(c) == c \in {" ", "\t", NL, "\f", CR}

\* is_separator of next_token
is_separator(c) == is_ascii_whitespace(c) \/ c = "=" \/ c = "!" \/ c = "\"" \/ c = "'"

\* str::trim_start_matches(|c| c.is_ascii_whitespace() || c == '\\')
RECURSIVE trim_start(_)
trim_start(rest) ==
    IF rest = <<>> THEN rest
    ELSE IF is_ascii_whitespace(Head(rest)) \/ Head(rest) = "\\" THEN trim_start(Tail(rest))
    ELSE rest

\* str::find(is_separator): the index of the first separator from 0, or -1
find_separator(rest) ==
    IF \E i \in 1..Len(rest) : is_separator(rest[i])
    THEN (CHOOSE i \in 1..Len(rest) :
             is_separator(rest[i]) /\ \A j \in 1..(i - 1) : ~is_separator(rest[j])) - 1
    ELSE -1

\* str::find(delim): the index of the first delim from 0, or -1
find_delim(rest, delim) ==
    IF \E i \in 1..Len(rest) : rest[i] = delim
    THEN (CHOOSE i \in 1..Len(rest) :
             rest[i] = delim /\ \A j \in 1..(i - 1) : rest[j] # delim) - 1
    ELSE -1

\* a token is a slice of the text it was cut from: tail is the number of
\* characters from its first character to the end of that text
CommandToken(kind, token, rest, tail) ==
    [kind |-> kind, token |-> token, rest |-> rest, tail |-> tail]

\* the token up to the first separator of rest, or all of rest
token_to_separator(kind, rest) ==
    IF find_separator(rest) = -1 THEN CommandToken(kind, rest, <<>>, Len(rest))
    ELSE CommandToken(kind, Take(rest, find_separator(rest)),
                      Drop(rest, find_separator(rest)), Len(rest))

\* next_token of CommandTokenIter::next
next_token(text) ==
    LET rest == trim_start(text)
    IN IF rest = <<>> THEN CommandToken("None", <<>>, text, 0)
       ELSE IF Head(rest) = "-" THEN token_to_separator("Flag", Tail(rest))
       ELSE IF Head(rest) = "\"" \/ Head(rest) = "'"
       THEN IF find_delim(Tail(rest), Head(rest)) = -1
            THEN CommandToken("Unterminated", Tail(rest), <<>>, Len(rest) - 1)
            ELSE CommandToken("Text", Take(Tail(rest), find_delim(Tail(rest), Head(rest))),
                              Drop(Tail(rest), find_delim(Tail(rest), Head(rest)) + 1),
                              Len(rest) - 1)
       ELSE IF Head(rest) = "=" THEN CommandToken("Equals", <<"=">>, Tail(rest), Len(rest))
       ELSE IF Head(rest) = "!" THEN CommandToken("Bang", <<"!">>, Tail(rest), Len(rest))
       ELSE token_to_separator("Text", rest)

\* the commands of the manager: the command of the tests, and one with a
\* required and an optional value that takes no bang
BuiltinCommand(names, bang_usage, required_values, optional_values, extra_values, flags) ==
    [names |-> names, bang_usage |-> bang_usage, required_values |-> required_values,
     optional_values |-> optional_values, extra_values |-> extra_values, flags |-> flags]

builtin_commands ==
    <<BuiltinCommand({<<"c">>}, TRUE, 0, 0, TRUE, <<<<"s">>, <<"o">>>>),
      BuiltinCommand({<<"r">>}, FALSE, 1, 1, FALSE, <<<<"s">>, <<"o">>>>)>>

\* CommandManager::find_command: the index of the command from 0, or -1
find_command(name) ==
    IF \E i \in DOMAIN builtin_commands : name \in builtin_commands[i].names
    THEN (CHOOSE i \in DOMAIN builtin_commands :
             /\ name \in builtin_commands[i].names
             /\ \A j \in 1..(i - 1) : name \notin builtin_commands[j].names) - 1
    ELSE -1

NoValue == [some |-> FALSE, value |-> <<>>]

SomeValue(value) == [some |-> TRUE, value |-> value]

\* a string that is no slice of the command text: a literal of the program
StaticTail == -1

StaticStr(s) == [token |-> s, tail |-> StaticTail]

\* CommandArgs::default.  required_values_tail and flags_tail hold where the
\* slices of required_values and flags start (see CommandToken).
CommandArgs_default ==
    [bang |-> FALSE,
     required_values |-> [i \in 1..MAX_REQUIRED_VALUES_LEN |-> <<>>],
     required_values_tail |-> [i \in 1..MAX_REQUIRED_VALUES_LEN |-> StaticTail],
     other_values |-> [i \in 1..MAX_OTHER_VALUES_LEN |-> NoValue],
     flags |-> [i \in 1..MAX_FLAGS_LEN |-> <<>>],
     flags_tail |-> [i \in 1..MAX_FLAGS_LEN |-> StaticTail]]

\* CommandParamsInfo of a command; max_values_len -1 is None
CommandParamsInfo(command) ==
    [min_values_len |-> command.required_values,
     max_values_len |-> IF command.extra_values THEN -1
                        ELSE command.required_values + command.optional_values,
     flags |-> command.flags]

\* the parse ends with the error, which carries the token
parse_fail(p, error, token) ==
    [p EXCEPT !.error = error, !.error_token = [token |-> token.token, tail |-> token.tail],
              !.done = TRUE]

\* add_value with the slots filled in the other order: a value goes to the
\* optional slots while one is free, then to the required slots
add_value_optional_first(params, p, value) ==
    IF p.values_count
          < (IF params.max_values_len = -1 THEN MAX_OTHER_VALUES_LEN
             ELSE params.max_values_len - params.min_values_len)
    THEN [p EXCEPT !.args.other_values[p.values_count + 1] = SomeValue(value.token),
                   !.values_count = @ + 1]
    ELSE IF p.values_count < (IF params.max_values_len = -1 THEN MAX_OTHER_VALUES_LEN
                              ELSE params.max_values_len)
    THEN [p EXCEPT !.args.required_values[
                        p.values_count - (params.max_values_len - params.min_values_len) + 1]
                            = value.token,
                   !.values_count = @ + 1]
    ELSE parse_fail(p, "TooManyValues", value)

\* add_value of parse.  p is the state of the parse:
\* [rest, has_peeked, peeked, args, values_count, error, error_token, done];
\* value, like every &str of parse, is [token, tail]
add_value(params, p, value) ==
    IF p.values_count < params.min_values_len
    THEN [p EXCEPT !.args.required_values[p.values_count + 1] = value.token,
                   !.args.required_values_tail[p.values_count + 1] = value.tail,
                   !.values_count = @ + 1]
    ELSE IF p.values_count - params.min_values_len
               < (IF params.max_values_len = -1 THEN MAX_OTHER_VALUES_LEN
                  ELSE params.max_values_len)
    THEN [p EXCEPT !.args.other_values[p.values_count - params.min_values_len + 1] =
                       SomeValue(value.token),
                   !.values_count = @ + 1]
    ELSE parse_fail(p, "TooManyValues", value)

\* add_flag of parse
add_flag(params, p, key, value) ==
    IF \E i \in DOMAIN params.flags : params.flags[i] = key.token
    THEN [p EXCEPT !.args.flags[CHOOSE i \in DOMAIN params.flags :
                                    /\ params.flags[i] = key.token
                                    /\ \A j \in 1..(i - 1) : params.flags[j] # key.token]
                       = value.token,
                   !.args.flags_tail[CHOOSE i \in DOMAIN params.flags :
                                    /\ params.flags[i] = key.token
                                    /\ \A j \in 1..(i - 1) : params.flags[j] # key.token]
                       = value.tail]
    ELSE parse_fail(p, "UnknownFlag", key)

TrueText == <<"t", "r", "u", "e">>

\* a Flag token of the loop of parse: the next token decides between a
\* value after `=`, or "true" with the next token peeked
parse_flag_token(params, p, flag_token, rest) ==
    LET equals == next_token(rest)
        value == next_token(equals.rest)
    IN IF equals.kind = "Equals"
       THEN IF value.kind = "Text"
            THEN [add_flag(params, p, flag_token, value) EXCEPT
                     !.rest = value.rest, !.has_peeked = FALSE]
            ELSE IF value.kind = "Unterminated"
            THEN parse_fail(p, "UnterminatedArgument", value)
            ELSE IF value.kind = "None"
            THEN parse_fail(p, "InvalidFlagValue", equals)
            ELSE parse_fail(p, "InvalidFlagValue", value)
       ELSE [add_flag(params, p, flag_token, StaticStr(TrueText)) EXCEPT
                !.rest = equals.rest, !.has_peeked = equals.kind # "None",
                !.peeked = equals]

\* one turn of the loop of parse
parse_token(params, p) ==
    LET token == IF p.has_peeked THEN p.peeked ELSE next_token(p.rest)
        q == [p EXCEPT !.has_peeked = FALSE, !.rest = token.rest]
    IN IF token.kind = "None" THEN [q EXCEPT !.done = TRUE]
       ELSE IF token.kind = "Text" THEN add_value(params, q, token)
       ELSE IF token.kind = "Flag" THEN parse_flag_token(params, q, token, token.rest)
       ELSE IF token.kind = "Unterminated"
       THEN parse_fail(q, "UnterminatedArgument", token)
       ELSE parse_fail(q, "InvalidArgument", token)

\* the loop of parse
RECURSIVE parse_tokens(_, _)
parse_tokens(params, p) ==
    IF p.done THEN p
    ELSE CHOOSE out \in {parse_tokens(params, q) : q \in {parse_token(params, p)}} : TRUE

\* an error of parse with the token it carries
CommandParseError(error, token) ==
    [ok |-> FALSE, error |-> error, error_token |-> [token |-> token.token, tail |-> token.tail],
     source |-> -1, args |-> CommandArgs_default]

\* str::trim_start
RECURSIVE trim_start_whitespace(_)
trim_start_whitespace(text) ==
    IF text # <<>> /\ is_ascii_whitespace(Head(text)) THEN trim_start_whitespace(Tail(text))
    ELSE text

\* the end of parse: too few values are an error, which carries the last
\* required value or the command name
parse_end(params, source, p, command_name) ==
    IF p.error # "" THEN CommandParseError(p.error, p.error_token)
    ELSE IF p.values_count < params.min_values_len
    THEN CommandParseError("TooFewValues",
             IF p.values_count > 0
             THEN [token |-> p.args.required_values[p.values_count],
                   tail |-> p.args.required_values_tail[p.values_count]]
             ELSE command_name)
    ELSE [ok |-> TRUE, error |-> "", error_token |-> StaticStr(<<>>), source |-> source,
          args |-> p.args]

\* CommandManager::parse
parse(text) ==
    LET name == next_token(text)
        bang == next_token(name.rest)
        source == find_command(name.token)
        params == CommandParamsInfo(builtin_commands[source + 1])
        p == [rest |-> bang.rest,
              has_peeked |-> bang.kind \notin {"Bang", "None"},
              peeked |-> bang,
              args |-> [CommandArgs_default EXCEPT !.bang = (bang.kind = "Bang")],
              values_count |-> 0, error |-> "", error_token |-> StaticStr(<<>>),
              done |-> FALSE]
    IN IF name.kind = "None"
       THEN CommandParseError("InvalidCommandName",
                [token |-> trim_start_whitespace(text),
                 tail |-> Len(trim_start_whitespace(text))])
       ELSE IF name.kind # "Text" THEN CommandParseError("InvalidCommandName", name)
       ELSE IF source = -1 THEN CommandParseError("CommandNotFound", name)
       ELSE IF bang.kind = "Bang" /\ ~builtin_commands[source + 1].bang_usage
       THEN CommandParseError("CommandDoesNotAcceptBang", name)
       ELSE CHOOSE out \in {parse_end(params, source, q, name) :
                               q \in {parse_tokens(params, p)}} : TRUE

\* the texts parsed: up to MaxPieces pieces, each a name, a value, a flag
\* or a separator
MaxPieces == 4

CommandPieces ==
    {<<"c">>, <<"r">>, <<" ", "a">>, <<"'", "b", "'">>, <<" ", "-", "s">>,
     <<" ", "-", "o", "=", "a">>, <<"=">>, <<"!">>, <<" ">>, <<"\\", NL>>}

RECURSIVE Concat(_)
Concat(pieces) == IF pieces = <<>> THEN <<>> ELSE Head(pieces) \o Concat(Tail(pieces))

CommandTexts == {Concat(pieces) : pieces \in SeqsUpTo(CommandPieces, MaxPieces)}

\* usize, scaled down from 64 bits
UsizeBits == 16

UsizeModulus == 2 ^ UsizeBits

\* <bool as FromStr>::from_str and <usize as FromStr>::from_str: whether the
\* value parses
from_str_ok(type_name, value) ==
    IF type_name = "bool" THEN value \in {TrueText, <<"f", "a", "l", "s", "e">>}
    ELSE value # <<>> /\ \A i \in DOMAIN value : is_ascii_digit(value[i])

\* CommandArgs::parse_flag::<T>: Ok(None) for an empty value, Ok(Some(..))
\* for a value that parses, else ParseValueError with the value
parse_flag(args, index, type_name) ==
    IF args.flags[index] = <<>> \/ from_str_ok(type_name, args.flags[index])
    THEN [ok |-> TRUE, error |-> "", error_token |-> StaticStr(<<>>)]
    ELSE [ok |-> FALSE, error |-> "ParseValueError",
          error_token |-> [token |-> args.flags[index], tail |-> args.flags_tail[index]]]

\* the address of a slice, counted from the address of the command text: a
\* slice of the text by its tail, a literal of the program at static_offset
slice_offset(command, token, static_offset) ==
    IF token.tail = StaticTail THEN static_offset ELSE Len(command) - token.tail

\* write of CommandErrorDisplay::fmt: error_offset is the difference of the
\* two addresses as usize, which panics with overflow checks and wraps
\* without when the token lies in front of the command; error_len is the
\* token's length
CommandErrorDisplay_write(command, token, static_offset, checks) ==
    IF slice_offset(command, token, static_offset) < 0 /\ checks
    THEN [state |-> "panicked", error_offset |-> 0, error_len |-> 0]
    ELSE [state |-> "written",
          error_offset |-> slice_offset(command, token, static_offset) % UsizeModulus,
          error_len |-> Len(token.token)]

\* where a literal of the program can lie, seen from a command text that is
\* allocated at run time: in front of it or behind it
MaxStaticGap == 2

StaticOffsets(command) ==
    {-g : g \in 1..MaxStaticGap} \cup {Len(command) + g : g \in 0..(MaxStaticGap - 1)}

NoDisplay == [state |-> "none", error_offset |-> 0, error_len |-> 0]

VARIABLES cmd_text, cmd_parsed, cmd_result, cmd_display

cmdVars == <<cmd_text, cmd_parsed, cmd_result, cmd_display>>

CmdInit ==
    /\ cmd_text \in CommandTexts
    /\ cmd_parsed = FALSE
    /\ cmd_result = CommandParseError("", StaticStr(<<>>))
    /\ cmd_display = NoDisplay

\* CommandManager::parse of the text
CmdParse ==
    /\ ~cmd_parsed
    /\ cmd_parsed' = TRUE
    /\ cmd_result' = parse(cmd_text)
    /\ UNCHANGED <<cmd_text, cmd_display>>

\* the error of the parse is displayed (CommandError::ParseError)
CmdDisplayParseError(static_offset, checks) ==
    /\ cmd_parsed /\ ~cmd_result.ok /\ cmd_display.state = "none"
    /\ cmd_display' = CommandErrorDisplay_write(cmd_text, cmd_result.error_token,
                                                 static_offset, checks)
    /\ UNCHANGED <<cmd_text, cmd_parsed, cmd_result>>

\* the command that was found converts a flag with parse_flag, and the error
\* of the conversion is displayed
CmdParseFlag(index, type_name, static_offset, checks) ==
    /\ cmd_parsed /\ cmd_result.ok /\ cmd_display.state = "none"
    /\ cmd_display' =
          IF parse_flag(cmd_result.args, index, type_name).ok
          THEN [state |-> "converted", error_offset |-> 0, error_len |-> 0]
          ELSE CommandErrorDisplay_write(cmd_text,
                   parse_flag(cmd_result.args, index, type_name).error_token,
                   static_offset, checks)
    /\ UNCHANGED <<cmd_text, cmd_parsed, cmd_result>>

(***************************************************************************)
(* lib/command.rs: the history of CommandManager, a VecDeque<String> whose *)
(* capacity is read back by add_to_history.                                *)
(***************************************************************************)
\* scaled down from the source's 10
HISTORY_CAPACITY == 2

MaxHistoryCalls == 5

HistoryEntries == {<<>>, <<"a">>, <<"b">>}

RECURSIVE next_power_of_two(_, _)
next_power_of_two(n, p) == IF p >= n THEN p ELSE next_power_of_two(n, 2 * p)

\* VecDeque::with_capacity(n) has space for at least n elements: capacity()
\* is n where the buffer is allocated as asked, and one less than the power
\* of two above n where the buffer is a ring of a power of two
VecDeque_with_capacity(n) == {n, next_power_of_two(n + 1, 1) - 1}

VARIABLES cm_history, cm_capacity, cm_added, cm_calls

hsVars == <<cm_history, cm_capacity, cm_added, cm_calls>>

\* CommandManager::new
HsInit ==
    /\ cm_history = <<>>
    /\ cm_capacity \in VecDeque_with_capacity(HISTORY_CAPACITY)
    /\ cm_added = <<>>
    /\ cm_calls = 0

\* CommandManager::add_to_history
add_to_history(history, capacity, entry) ==
    IF entry = <<>> THEN history
    ELSE IF Len(history) = capacity THEN Append(Tail(history), entry)
    ELSE Append(history, entry)

HsAddToHistory(entry) ==
    /\ cm_calls < MaxHistoryCalls
    /\ cm_calls' = cm_calls + 1
    /\ cm_history' = add_to_history(cm_history, cm_capacity, entry)
    /\ cm_added' = IF entry = <<>> THEN cm_added ELSE Append(cm_added, entry)
    /\ UNCHANGED cm_capacity

(***************************************************************************)
(* buffer.rs: BufferContent::find_delimiter_pair_at.  The characters of    *)
(* the lines are one byte long.                                            *)
(***************************************************************************)
MaxDelimiterLineLen == 5

DelimiterLines == SeqsUpTo({"|", "a"}, MaxDelimiterLineLen)

NoRange == [some |-> FALSE, range |-> Rng(Pos(0, 0), Pos(0, 0))]

SomeRange(range) == [some |-> TRUE, range |-> range]

\* the loop of find_delimiter_pair_at from the character with index i.
\* s is [is_right_delim, last_i].
RECURSIVE find_delimiter_pair_from(_, _, _, _, _)
find_delimiter_pair_from(line, position, delimiter, i, s) ==
    IF i >= Len(line) THEN NoRange
    ELSE IF line[i + 1] # delimiter
    THEN find_delimiter_pair_from(line, position, delimiter, i + 1, s)
    ELSE IF i >= position.col /\ s.is_right_delim
    THEN SomeRange(Rng(Pos(position.line, s.last_i + 1), Pos(position.line, i)))
    ELSE IF i >= position.col /\ i # position.col THEN NoRange
    ELSE find_delimiter_pair_from(line, position, delimiter, i + 1,
                                  [is_right_delim |-> ~s.is_right_delim, last_i |-> i])

\* BufferContent::find_delimiter_pair_at
find_delimiter_pair_at(lines, position, delimiter) ==
    find_delimiter_pair_from(lines[clamp_position(lines, position).line + 1],
                             clamp_position(lines, position), delimiter, 0,
                             [is_right_delim |-> FALSE, last_i |-> 0])

VARIABLES dp_lines, dp_position, dp_called, dp_result

dpVars == <<dp_lines, dp_position, dp_called, dp_result>>

DpInit ==
    /\ dp_lines \in {<<line>> : line \in DelimiterLines}
                   \cup {<<<<"a">>, line>> : line \in DelimiterLines}
    /\ dp_position \in {Pos(l, c) : l \in 0..1, c \in 0..(MaxDelimiterLineLen + 1)}
    /\ dp_called = FALSE
    /\ dp_result = NoRange

\* a call of find_delimiter_pair_at with the delimiter `|`
DpFindDelimiterPairAt ==
    /\ ~dp_called
    /\ dp_called' = TRUE
    /\ dp_result' = find_delimiter_pair_at(dp_lines, dp_position, "|")
    /\ UNCHANGED <<dp_lines, dp_position>>

(***************************************************************************)
(* command/builtins.rs: the `open` command.  The arguments are the Text    *)
(* tokens behind the command name; the read of the file succeeds.          *)
(***************************************************************************)
MaxOpenArgs == 3

PropertyNames ==
    {"text", "scratch", "history-enabled", "history-disabled", "saving-enabled",
     "saving-disabled", "word-database-enabled", "word-database-disabled"}

OpenArgs == {"foo.rs", "text", "scratch", "history-disabled", "saving-disabled", "bogus"}

\* BufferProperties::text and BufferProperties::scratch
BufferProperties_text ==
    [history_enabled |-> TRUE, saving_enabled |-> TRUE, is_file |-> TRUE,
     word_database_enabled |-> TRUE]

BufferProperties_scratch ==
    [history_enabled |-> FALSE, saving_enabled |-> FALSE, is_file |-> TRUE,
     word_database_enabled |-> FALSE]

\* the arms of the match of `open`
apply_property(properties, name) ==
    IF name = "text" THEN BufferProperties_text
    ELSE IF name = "scratch" THEN BufferProperties_scratch
    ELSE IF name = "history-enabled" THEN [properties EXCEPT !.history_enabled = TRUE]
    ELSE IF name = "history-disabled" THEN [properties EXCEPT !.history_enabled = FALSE]
    ELSE IF name = "saving-enabled" THEN [properties EXCEPT !.saving_enabled = TRUE]
    ELSE IF name = "saving-disabled" THEN [properties EXCEPT !.saving_enabled = FALSE]
    ELSE IF name = "word-database-enabled"
    THEN [properties EXCEPT !.word_database_enabled = TRUE]
    ELSE [properties EXCEPT !.word_database_enabled = FALSE]

OpenError(error) ==
    [ok |-> FALSE, error |-> error, path |-> "", properties |-> BufferProperties_text]

\* the loop of `open` over the arguments left: the value of path is matched
\* against the property names, then path takes the argument
RECURSIVE open_properties(_, _, _)
open_properties(path, properties, args) ==
    IF args = <<>> THEN [ok |-> TRUE, error |-> "", path |-> path, properties |-> properties]
    ELSE IF path \notin PropertyNames THEN OpenError("NoSuchBufferProperty")
    ELSE open_properties(Head(args), apply_property(properties, path), Tail(args))

\* the `open` command up to the load of the buffer
open(args) ==
    IF args = <<>> THEN OpenError("TooFewArguments")
    ELSE open_properties(Head(args), BufferProperties_text, Tail(args))

VARIABLES op_args, op_called, op_result

opVars == <<op_args, op_called, op_result>>

OpInit ==
    /\ op_args \in SeqsUpTo(OpenArgs, MaxOpenArgs)
    /\ op_called = FALSE
    /\ op_result = OpenError("")

\* the `open` command is run with the arguments
OpOpen ==
    /\ ~op_called
    /\ op_called' = TRUE
    /\ op_result' = open(op_args)
    /\ UNCHANGED op_args

(***************************************************************************)
(* editor_utils.rs: load_config.  A line is evaluated by the parser of     *)
(* lib/command.rs; a command that parses runs and continues.               *)
(***************************************************************************)
MaxConfigLen == 5

ConfigChars == {"c", "r", " ", "#", NL}

ConfigContents == SeqsUpTo(ConfigChars, MaxConfigLen)

ConfigName == "config"

NoStatus == [kind |-> "None", name |-> "", line |-> 0, text |-> <<>>]

\* editor.status_bar.write(MessageKind::Error) of load_config
ErrorStatus(name, line_number, line) ==
    [kind |-> "Error", name |-> name, line |-> line_number, text |-> line]

\* CommandManager::try_eval: TRUE where the line evaluates without an error
try_eval(line) == parse(line).ok

\* the loop of load_config from the line of index line_index (0-based)
RECURSIVE load_config_from(_, _, _, _)
load_config_from(config_name, lines, line_index, evaluated) ==
    IF line_index >= Len(lines) THEN [evaluated |-> evaluated, status |-> NoStatus]
    ELSE LET line == lines[line_index + 1]
         IN IF line = <<>> \/ Head(line) = "#"
            THEN load_config_from(config_name, lines, line_index + 1, evaluated)
            ELSE IF try_eval(line)
            THEN load_config_from(config_name, lines, line_index + 1,
                                  Append(evaluated, line_index + 1))
            ELSE [evaluated |-> Append(evaluated, line_index + 1),
                  status |-> ErrorStatus(config_name, line_index + 1, line)]

load_config(config_name, config_content) ==
    load_config_from(config_name, str_lines(config_content), 0, <<>>)

VARIABLES config_content, config_loaded, config_evaluated, status_bar

cfVars == <<config_content, config_loaded, config_evaluated, status_bar>>

CfInit ==
    /\ config_content \in ConfigContents
    /\ config_loaded = FALSE
    /\ config_evaluated = <<>>
    /\ status_bar = NoStatus

\* load_config runs over the content of the script
CfLoadConfig ==
    /\ ~config_loaded
    /\ \E out \in {load_config(ConfigName, config_content)} :
          /\ config_evaluated' = out.evaluated
          /\ status_bar' = out.status
    /\ config_loaded' = TRUE
    /\ UNCHANGED config_content

(***************************************************************************)
(* buffer.rs: Buffer with its search ranges and the word database.         *)
(***************************************************************************)
MaxSearchSteps == 2

SearchTexts == {<<>>, <<"a">>, <<"a", " ">>}

\* the loop of find_search_ranges over one line (text without uppercase)
RECURSIVE find_in_line(_, _, _, _)
find_in_line(line_index, line, column_index, text) ==
    IF Len(line) - column_index < Len(text) THEN <<>>
    ELSE IF SubSeq(line, column_index + 1, column_index + Len(text)) = text
    THEN <<Rng(Pos(line_index, column_index), Pos(line_index, column_index + Len(text)))>>
         \o find_in_line(line_index, line, column_index + Len(text), text)
    ELSE find_in_line(line_index, line, column_index + 1, text)

RECURSIVE find_in_lines(_, _, _)
find_in_lines(lines, i, text) ==
    IF i >= Len(lines) THEN <<>>
    ELSE find_in_line(i, lines[i + 1], 0, text) \o find_in_lines(lines, i + 1, text)

\* BufferContent::find_search_ranges into an empty vector
find_search_ranges(lines, text) ==
    IF text = <<>> THEN <<>> ELSE find_in_lines(lines, 0, text)

NoCall == [op |-> "none", range |-> Rng(Pos(0, 0), Pos(0, 0))]

VARIABLES sb_buffer, search_ranges, sb_words, sb_steps, sb_call

sbVars == <<sb_buffer, search_ranges, sb_words, sb_steps, sb_call>>

SbInit ==
    /\ sb_buffer \in {Buffer_new(content_from_str(t)) : t \in WordInitialTexts}
    /\ search_ranges = <<>>
    /\ sb_words = add_words(WordDatabase_new,
                            lines_words(sb_buffer.content, 1, Len(sb_buffer.content)))
    /\ sb_steps = 0
    /\ sb_call = NoCall

\* Buffer::set_search
SbSetSearch(text) ==
    /\ sb_steps < MaxSearchSteps
    /\ search_ranges' = find_search_ranges(sb_buffer.content, text)
    /\ sb_steps' = sb_steps + 1
    /\ sb_call' = [NoCall EXCEPT !.op = "set_search"]
    /\ UNCHANGED <<sb_buffer, sb_words>>

\* Buffer::insert_text at a position of the content
SbInsertText(position, text) ==
    /\ sb_steps < MaxSearchSteps
    /\ position = clamp_position(sb_buffer.content, position)
    /\ search_ranges' = <<>>
    /\ \E b \in {Buffer_insert_text(sb_buffer, position, text)} :
          /\ sb_buffer' = b
          /\ sb_words' =
                IF text = <<>> THEN sb_words
                ELSE LET r == content_insert_text(sb_buffer.content, position, text)
                     IN add_words(remove_words(sb_words,
                                      line_words(sb_buffer.content[position.line + 1])),
                                  lines_words(b.content, r.range.from.line + 1,
                                              r.range.to.line + 1))
    /\ sb_steps' = sb_steps + 1
    /\ sb_call' = [NoCall EXCEPT !.op = "insert_text"]

\* Buffer::delete_range of a range of the content
SbDeleteRange(range) ==
    /\ sb_steps < MaxSearchSteps
    /\ range = clamped_range(sb_buffer.content, range)
    /\ search_ranges' = <<>>
    /\ \E b \in {Buffer_delete_range(sb_buffer, range, FALSE)} :
          /\ sb_buffer' = b
          /\ sb_words' =
                IF range.from = range.to THEN sb_words
                ELSE add_words(remove_words(sb_words,
                                   lines_words(sb_buffer.content, range.from.line + 1,
                                               range.to.line + 1)),
                               line_words(b.content[range.from.line + 1]))
    /\ sb_steps' = sb_steps + 1
    /\ sb_call' = [op |-> "delete_range", range |-> range]

(***************************************************************************)
(* lsp/protocol.rs: Protocol::request, notify and respond.  A JSON object  *)
(* is the sequence of its members in the order they were set.              *)
(***************************************************************************)
MaxWritten == 3

JsonNull == [type |-> "Null"]

JsonInteger(n) == [type |-> "Integer", n |-> n]

JsonString(s) == [type |-> "String", s |-> s]

JsonObjectValue(members) == [type |-> "Object", members |-> members]

JsonObject_default == <<>>

\* JsonObject::set
JsonObject_set(object, key, value) == Append(object, [key |-> key, value |-> value])

\* the members of an object with the key
JsonObject_get(object, key) == {object[i].value : i \in {j \in 1..Len(object) : object[j].key = key}}

WrittenMethods == {"textDocument/didOpen", "textDocument/hover"}

WrittenParams == {JsonNull, JsonObjectValue(<<>>)}

\* Result<JsonValue, ResponseError>
WrittenResults ==
    {[ok |-> TRUE, result |-> JsonNull, code |-> 0, message |-> "", data |-> JsonNull],
     [ok |-> FALSE, result |-> JsonNull, code |-> -32601, message |-> "method not found",
      data |-> JsonNull]}

ServerRequestIds == {JsonInteger(7), JsonString("s1")}

\* the body Protocol::request sends
request_body(id, method, params) ==
    JsonObject_set(
        JsonObject_set(
            JsonObject_set(
                JsonObject_set(JsonObject_default, "jsonrpc", JsonString("2.0")),
                "id", JsonInteger(id)),
            "method", JsonString(method)),
        "params", params)

\* the body Protocol::notify sends
notify_body(method, params) ==
    JsonObject_set(
        JsonObject_set(
            JsonObject_set(JsonObject_default, "jsonrpc", JsonString("2.0")),
            "method", JsonString(method)),
        "params", params)

\* the body Protocol::respond sends
respond_body(request_id, result) ==
    LET body == JsonObject_set(JsonObject_default, "id", request_id)
    IN IF result.ok THEN JsonObject_set(body, "result", result.result)
       ELSE JsonObject_set(body, "error",
                JsonObjectValue(
                    JsonObject_set(
                        JsonObject_set(
                            JsonObject_set(JsonObject_default, "code",
                                           JsonInteger(result.code)),
                            "message", JsonString(result.message)),
                        "data", result.data)))

VARIABLES next_request_id, sent_bodies

pwVars == <<next_request_id, sent_bodies>>

\* Protocol::new
PwInit ==
    /\ next_request_id = 1
    /\ sent_bodies = <<>>

\* Protocol::request
PwRequest(method, params) ==
    /\ Len(sent_bodies) < MaxWritten
    /\ sent_bodies' = Append(sent_bodies, [kind |-> "request",
                                   body |-> request_body(next_request_id, method, params)])
    /\ next_request_id' = next_request_id + 1

\* Protocol::notify
PwNotify(method, params) ==
    /\ Len(sent_bodies) < MaxWritten
    /\ sent_bodies' = Append(sent_bodies, [kind |-> "notification",
                                   body |-> notify_body(method, params)])
    /\ UNCHANGED next_request_id

\* Protocol::respond
PwRespond(request_id, result) ==
    /\ Len(sent_bodies) < MaxWritten
    /\ sent_bodies' = Append(sent_bodies, [kind |-> "response",
                                   body |-> respond_body(request_id, result)])
    /\ UNCHANGED next_request_id

(***************************************************************************)
(* undo.rs: Undo under pushes and commits followed by calls of undo and    *)
(* redo.  ur_groups follows the groups of edits the pushes and commits     *)
(* made: the last one is open while it may still take a pushed edit.       *)
(***************************************************************************)
MaxPushes == 3

MaxUndoCalls == 3

PushedEdits ==
    {Edit("Insert", Rng(Pos(0, 0), Pos(0, 1)), <<"x">>),
     Edit("Delete", Rng(Pos(0, 0), Pos(0, 1)), <<"a">>)}

VARIABLES ur_undo, ur_groups, ur_open, ur_calls

urVars == <<ur_undo, ur_groups, ur_open, ur_calls>>

UrInit ==
    /\ ur_undo = Undo_new
    /\ ur_groups = <<>>
    /\ ur_open = FALSE
    /\ ur_calls = <<>>

\* Undo::push_edit before any undo or redo
UrPushEdit(edit) ==
    /\ ur_calls = <<>>
    /\ Len(ur_undo.history) < MaxPushes
    /\ ur_undo' = Undo_push_edit(ur_undo, edit)
    /\ ur_groups' = IF ur_open
                    THEN [ur_groups EXCEPT ![Len(ur_groups)] = Append(@, edit)]
                    ELSE Append(ur_groups, <<edit>>)
    /\ ur_open' = TRUE
    /\ UNCHANGED ur_calls

\* Undo::commit_edits before any undo or redo
UrCommitEdits ==
    /\ ur_calls = <<>>
    /\ ur_open
    /\ ur_undo' = Undo_commit_edits(ur_undo)
    /\ ur_open' = FALSE
    /\ UNCHANGED <<ur_groups, ur_calls>>

\* Undo::undo
UrUndo ==
    /\ Len(ur_calls) < MaxUndoCalls
    /\ \E r \in {Undo_undo(ur_undo)} :
          /\ ur_undo' = r.undo
          /\ ur_calls' = Append(ur_calls, [op |-> "undo", edits |-> r.edits])
    /\ ur_open' = FALSE
    /\ UNCHANGED ur_groups

\* Undo::redo
UrRedo ==
    /\ Len(ur_calls) < MaxUndoCalls
    /\ \E r \in {Undo_redo(ur_undo)} :
          /\ ur_undo' = r.undo
          /\ ur_calls' = Append(ur_calls, [op |-> "redo", edits |-> r.edits])
    /\ ur_open' = FALSE
    /\ UNCHANGED ur_groups

(***************************************************************************)
(* lsp/client.rs: the didChange notifications helper::send_pending_did_    *)
(* change writes for a server's capabilities.                              *)
(***************************************************************************)
MaxPendingEdits == 2

\* the textDocument/didChange notifications of helper::send_pending_did_change
\* from the versioned buffer of index i on
RECURSIVE did_change_notifications(_, _, _, _)
did_change_notifications(caps, buffers, versioned_buffers, i) ==
    IF caps.change = "None" \/ i > Len(versioned_buffers) THEN <<>>
    ELSE IF \/ versioned_buffers[i].pending_edits = <<>>
            \/ ~BufferCollection_has(buffers, i - 1)
            \/ buffers[i].path = ""
    THEN did_change_notifications(caps, buffers, versioned_buffers, i + 1)
    ELSE <<[path |-> buffers[i].path,
            version |-> versioned_buffers[i].version,
            pending_edits |-> versioned_buffers[i].pending_edits,
            text |-> buffer_to_string(buffers[i].content),
            content_changes |-> content_changes(caps, buffers[i], versioned_buffers[i])]>>
         \o did_change_notifications(caps, buffers, versioned_buffers, i + 1)

VARIABLES dc_capabilities, dc_buffers, dc_versioned_buffers, dc_sent

dcVars == <<dc_capabilities, dc_buffers, dc_versioned_buffers, dc_sent>>

\* a buffer with a path is open and the server's capabilities are known
DcInit ==
    /\ dc_capabilities \in {c \in Capabilities_from_json : c.open_close /\ ~c.formatting /\ ~c.hover}
    /\ dc_buffers \in {<<[open |-> TRUE, uid |-> 1, path |-> "p", content |-> content_from_str(t)]>> :
                          t \in LspInitialTexts}
    /\ dc_versioned_buffers = <<>>
    /\ dc_sent = <<>>

\* EditorEvent::BufferInsertText: the edit is added to the pending ones
DcInsertText(position, text) ==
    /\ dc_sent = <<>>
    /\ IF dc_versioned_buffers = <<>> THEN TRUE
       ELSE Len(dc_versioned_buffers[1].pending_edits) < MaxPendingEdits
    /\ position \in ValidPositions(dc_buffers[1].content)
    /\ \E r \in {content_insert_text(dc_buffers[1].content, position, text)} :
          /\ dc_buffers' = [dc_buffers EXCEPT ![1].content = r.lines]
          /\ dc_versioned_buffers' =
                VersionedBuffers_add_edit(dc_versioned_buffers, 0,
                                          Rng(r.range.from, r.range.from), text)
    /\ UNCHANGED <<dc_capabilities, dc_sent>>

\* helper::send_pending_did_change
DcSendPendingDidChange ==
    /\ dc_sent = <<>>
    /\ dc_versioned_buffers # <<>>
    /\ dc_capabilities.change # "None"
    /\ dc_sent' = did_change_notifications(dc_capabilities, dc_buffers, dc_versioned_buffers, 1)
    /\ dc_versioned_buffers' =
          send_pending_did_change(dc_capabilities, dc_buffers,
              [versioned_buffers |-> dc_versioned_buffers,
               docs |-> [p \in Paths |-> NoDocument]]).versioned_buffers
    /\ UNCHANGED <<dc_capabilities, dc_buffers>>

(***************************************************************************)
(* platforms/linux.rs: the loop of run_server over the events of one       *)
(* Epoll::wait.  An event is the index its source was added with.          *)
(***************************************************************************)
MAX_CLIENT_COUNT == 2

CLIENTS_START_INDEX == 1 + 1

CLIENTS_LAST_INDEX == CLIENTS_START_INDEX + MAX_CLIENT_COUNT - 1

PROCESSES_START_INDEX == CLIENTS_LAST_INDEX + 1

PROCESSES_LAST_INDEX == PROCESSES_START_INDEX + MAX_PROCESS_COUNT - 1

MaxBatchLen == 3

MaxWaits == 2

\* Epoll::wait: the indexes of the ready sources in the order epoll_wait
\* wrote them, each source once
EpollBatches ==
    {batch \in SeqsUpTo(0..PROCESSES_LAST_INDEX, MaxBatchLen) :
        \A i, j \in 1..Len(batch) : i # j => batch[i] # batch[j]}

\* the arm of `match event_index`
event_handler(event_index) ==
    IF event_index = 0 THEN [kind |-> "requests", handle |-> 0]
    ELSE IF event_index = 1 THEN [kind |-> "listener", handle |-> 0]
    ELSE IF event_index \in CLIENTS_START_INDEX..CLIENTS_LAST_INDEX
    THEN [kind |-> "client", handle |-> event_index - CLIENTS_START_INDEX]
    ELSE [kind |-> "process", handle |-> event_index - PROCESSES_START_INDEX]

VARIABLES ev_events, ev_reported, ev_handled, ev_timeout, ev_waits, ev_idle_owed

evVars == <<ev_events, ev_reported, ev_handled, ev_timeout, ev_waits, ev_idle_owed>>

EvInit ==
    /\ ev_events = <<>>
    /\ ev_reported = <<>>
    /\ ev_handled = <<>>
    /\ ev_timeout = TRUE
    /\ ev_waits = 0
    /\ ev_idle_owed = FALSE

\* epoll.wait returns the events of the sources that are ready, once the
\* events before are handled
EvWait(batch) ==
    /\ ev_events = <<>> /\ ev_waits < MaxWaits
    /\ batch # <<>>
    /\ ev_events' = batch
    /\ ev_reported' = batch
    /\ ev_handled' = <<>>
    /\ ev_waits' = ev_waits + 1
    /\ UNCHANGED <<ev_timeout, ev_idle_owed>>

\* epoll.wait times out without events: ApplicationEvent::Idle is sent and
\* the timeout is dropped; without a timeout the wait blocks
EvTimeout ==
    /\ ev_events = <<>>
    /\ ev_timeout
    /\ ev_timeout' = FALSE
    /\ ev_idle_owed' = FALSE
    /\ ev_reported' = <<>>
    /\ ev_handled' = <<>>
    /\ UNCHANGED <<ev_events, ev_waits>>

\* one iteration of `for event_index in events`
EvHandle ==
    /\ ev_events # <<>>
    /\ ev_handled' = Append(ev_handled, event_handler(Head(ev_events)))
    /\ ev_events' = Tail(ev_events)
    /\ ev_timeout' = (ev_timeout \/ event_handler(Head(ev_events)).kind = "client")
    /\ ev_idle_owed' = TRUE
    /\ UNCHANGED <<ev_reported, ev_waits>>

(***************************************************************************)
(* editor.rs: Editor::on_event for ClientEvent::Key.  A call of the mode   *)
(* takes keys from the iterator and returns a ModeOperation; which keys it *)
(* takes and what it returns is the mode's choice.                         *)
(***************************************************************************)
MaxKeyEvents == 3

MaxTakenKeys == 2

Keys == {"a", "b"}

KeyClients == {0, 1}

\* MatchResult of keymaps.matches
MatchResults == {[kind |-> "None", keys |-> <<>>], [kind |-> "Prefix", keys |-> <<>>],
                 [kind |-> "ReplaceWith", keys |-> <<"b", "b">>]}

ModeOperations == {"Pending", "None", "Quit", "QuitAll", "EnterMode"}

\* KeysIterator::next called n times: the index does not pass the keys
KeysIterator_next(len, index, n) == Min(index + n, len)

\* the loop of on_event over the buffered keys: the outcomes the calls of
\* the mode can lead to, as [result, pending, index]
RECURSIVE mode_loop(_, _)
mode_loop(len, index) ==
    IF index >= len THEN {[result |-> "Continue", pending |-> FALSE, index |-> index]}
    ELSE UNION {
        IF operation = "Pending"
        THEN {[result |-> "Continue", pending |-> TRUE,
               index |-> KeysIterator_next(len, index, n)]}
        ELSE IF operation \in {"Quit", "QuitAll"}
        THEN {[result |-> operation, pending |-> FALSE,
               index |-> KeysIterator_next(len, index, n)]}
        ELSE mode_loop(len, KeysIterator_next(len, index, n)) :
        operation \in ModeOperations, n \in 1..MaxTakenKeys}

NoKeyEvent ==
    [matched |-> "None", refocused |-> FALSE, key |-> "", delivered |-> <<>>,
     pending_before |-> FALSE, keys_before |-> <<>>, index_before |-> 0]

VARIABLES buffered_keys, ky_focused_client, ky_pending, ky_index, ky_result, ky_event,
          ky_events

kyVars == <<buffered_keys, ky_focused_client, ky_pending, ky_index, ky_result, ky_event,
            ky_events>>

KyInit ==
    /\ buffered_keys = <<>>
    /\ ky_focused_client = 0
    /\ ky_pending = FALSE
    /\ ky_index = 0
    /\ ky_result = "Continue"
    /\ ky_event = NoKeyEvent
    /\ ky_events = 0

\* Editor::on_event(ClientEvent::Key(key)) of a client
KyKey(target_client, key, matched) ==
    /\ ky_events < MaxKeyEvents
    /\ ky_result = "Continue"
    /\ ky_events' = ky_events + 1
    /\ ky_focused_client' = target_client
    /\ \E pushed \in {Append(IF target_client # ky_focused_client THEN <<>> ELSE buffered_keys,
                             key)} :
          \E keys \in {IF matched.kind = "ReplaceWith" THEN matched.keys ELSE pushed} :
             /\ ky_event' = [matched |-> matched.kind,
                             refocused |-> target_client # ky_focused_client,
                             key |-> key,
                             delivered |-> IF matched.kind = "Prefix" THEN <<>> ELSE keys,
                             pending_before |-> ky_pending,
                             keys_before |-> buffered_keys,
                             index_before |-> ky_index]
             /\ IF matched.kind = "Prefix"
                THEN /\ buffered_keys' = pushed
                     /\ ky_result' = "Continue"
                     /\ UNCHANGED <<ky_pending, ky_index>>
                ELSE \E out \in mode_loop(Len(keys), 0) :
                        /\ buffered_keys' = IF out.pending THEN keys ELSE <<>>
                        /\ ky_pending' = out.pending
                        /\ ky_index' = out.index
                        /\ ky_result' = out.result

(***************************************************************************)
(* buffer.rs: BufferLine, BufferLinePool and BufferContent over them.  A   *)
(* line is [text, char_count]; the state st of a content is [lines, pool,  *)
(* recycled, panic].  The texts are ASCII: a character is a byte.          *)
(***************************************************************************)
MaxPoolSteps == 3

PoolInitialTexts == {<<"a", "b">>, <<"a", NL, "b", NL, "c">>}

PoolEditTexts == {<<"x">>, <<NL>>, <<"x", NL, "y">>}

BufferLine(text, char_count) == [text |-> text, char_count |-> char_count]

\* BufferLinePool::rent: a pooled line has its text cleared
BufferLinePool_rent(pool) ==
    IF pool = <<>> THEN [line |-> BufferLine(<<>>, 0), pool |-> pool, recycled |-> FALSE]
    ELSE [line |-> [pool[Len(pool)] EXCEPT !.text = <<>>],
          pool |-> Take(pool, Len(pool) - 1),
          recycled |-> pool[Len(pool)].char_count # 0]

\* BufferLinePool::dispose
BufferLinePool_dispose(pool, line) == Append(pool, line)

\* BufferLine::push_text
BufferLine_push_text(line, text) ==
    BufferLine(line.text \o text, line.char_count + Len(text))

\* BufferLine::insert_text
BufferLine_insert_text(line, index, text) ==
    BufferLine(Take(line.text, index) \o text \o Drop(line.text, index),
               line.char_count + Len(text))

\* a - b of usize: a panic with overflow checks, else the wrapped difference
usize_sub(a, b, checks) ==
    IF b <= a THEN [value |-> a - b, panic |-> FALSE]
    ELSE [value |-> (a - b) % UsizeModulus, panic |-> checks]

\* BufferLine::delete_range(from..to)
BufferLine_delete_range(line, from, to, checks) ==
    LET d == usize_sub(line.char_count, to - from, checks)
    IN [line |-> BufferLine(Take(line.text, from) \o Drop(line.text, to), d.value),
        panic |-> d.panic]

\* BufferLine::split_off
BufferLine_split_off(line, pool, index, checks) ==
    LET r == BufferLinePool_rent(pool)
        new_line == BufferLine_push_text(r.line, Drop(line.text, index))
        d == usize_sub(line.char_count, new_line.char_count, checks)
    IN [line |-> BufferLine(Take(line.text, index), d.value), new_line |-> new_line,
        pool |-> r.pool, recycled |-> r.recycled, panic |-> d.panic]

InsertAt(s, i, e) == Take(s, i - 1) \o <<e>> \o Drop(s, i - 1)

\* the loop `for line_text in lines` of BufferContent::insert_text: the
\* lines are rented and inserted behind the line of index at (1-based)
RECURSIVE pooled_insert_lines(_, _, _)
pooled_insert_lines(st, at, texts) ==
    IF texts = <<>> THEN st
    ELSE LET r == BufferLinePool_rent(st.pool)
         IN pooled_insert_lines(
                [st EXCEPT !.lines = InsertAt(@, at + 1,
                                              BufferLine_push_text(r.line, Head(texts))),
                           !.pool = r.pool,
                           !.recycled = @ \/ r.recycled],
                at + 1, Tail(texts))

\* BufferContent::clamp_position over pooled lines
pooled_clamp_position(lines, position) ==
    LET li == Min(position.line, Len(lines) - 1)
    IN Pos(li, Min(position.col, Len(lines[li + 1].text)))

\* BufferContent::insert_text
pooled_insert_text(st, position, text, checks) ==
    LET p == pooled_clamp_position(st.lines, position)
        li == p.line + 1
    IN IF ~HasNL(text)
       THEN [st EXCEPT !.lines[li] = BufferLine_insert_text(@, p.col, text)]
       ELSE LET s == BufferLine_split_off(st.lines[li], st.pool, p.col, checks)
                texts == str_lines(text)
                first == IF texts = <<>> THEN s.line
                         ELSE BufferLine_push_text(s.line, Head(texts))
                rest == IF texts = <<>> THEN <<>> ELSE Tail(texts)
                st1 == [st EXCEPT !.lines[li] = first, !.pool = s.pool,
                                  !.recycled = @ \/ s.recycled]
                st2 == pooled_insert_lines(st1, li, rest)
                last == li + Len(rest)
            IN IF s.panic THEN [st EXCEPT !.panic = TRUE, !.recycled = @ \/ s.recycled]
               ELSE IF ends_with_nl(text)
               THEN [st2 EXCEPT !.lines = InsertAt(@, last + 1, s.new_line)]
               ELSE [st2 EXCEPT !.lines[last] = BufferLine_push_text(@, s.new_line.text)]

\* the lines of a range are disposed one by one
RECURSIVE pooled_dispose_lines(_, _)
pooled_dispose_lines(pool, lines) ==
    IF lines = <<>> THEN pool
    ELSE pooled_dispose_lines(BufferLinePool_dispose(pool, Head(lines)), Tail(lines))

\* BufferContent::delete_range
pooled_delete_range(st, range, checks) ==
    LET from == pooled_clamp_position(st.lines, range.from)
        to == pooled_clamp_position(st.lines, range.to)
        fi == from.line + 1
        ti == to.line + 1
    IN IF fi = ti
       THEN LET d == BufferLine_delete_range(st.lines[fi], from.col, to.col, checks)
            IN [st EXCEPT !.lines[fi] = d.line, !.panic = d.panic]
       ELSE LET d == BufferLine_delete_range(st.lines[fi], from.col,
                                             Len(st.lines[fi].text), checks)
                to_line == st.lines[ti]
                joined == BufferLine_push_text(d.line, Drop(to_line.text, to.col))
            IN [st EXCEPT !.lines = Take(st.lines, fi - 1) \o <<joined>> \o Drop(st.lines, ti),
                          !.pool = pooled_dispose_lines(@, SubSeq(st.lines, fi + 1, ti - 1)),
                          !.panic = d.panic]

\* BufferContent::from_str with a pool that holds no line
pooled_from_str(text) ==
    pooled_insert_text([lines |-> <<BufferLine(<<>>, 0)>>, pool |-> <<>>,
                        recycled |-> FALSE, panic |-> FALSE],
                       Pos(0, 0), text, FALSE)

VARIABLES lp_content, lp_checks, lp_steps

lpVars == <<lp_content, lp_checks, lp_steps>>

LpInit ==
    /\ lp_content \in {pooled_from_str(t) : t \in PoolInitialTexts}
    /\ lp_checks \in BOOLEAN
    /\ lp_steps = 0

\* BufferContent::insert_text with the shared pool
LpInsertText(position, text) ==
    /\ lp_steps < MaxPoolSteps /\ ~lp_content.panic
    /\ position = pooled_clamp_position(lp_content.lines, position)
    /\ \E st \in {pooled_insert_text(lp_content, position, text, lp_checks)} :
          lp_content' = st
    /\ lp_steps' = lp_steps + 1
    /\ UNCHANGED lp_checks

\* BufferContent::delete_range with the shared pool
LpDeleteRange(range) ==
    /\ lp_steps < MaxPoolSteps /\ ~lp_content.panic
    /\ range.from = pooled_clamp_position(lp_content.lines, range.from)
    /\ range.to = pooled_clamp_position(lp_content.lines, range.to)
    /\ range.from # range.to
    /\ \E st \in {pooled_delete_range(lp_content, range, lp_checks)} :
          lp_content' = st
    /\ lp_steps' = lp_steps + 1
    /\ UNCHANGED lp_checks

(***************************************************************************)
(* buffer.rs: Text::push_str on texts of chosen lengths.                   *)
(***************************************************************************)
MaxPushLen == 300

\* the lengths around the inline capacity and around the range of u8
TextLens == {0, 1, 29, 30, 31}

PushLens == {0, 1, 29, 30, 31, 225, 226, 255, 256, 257, MaxPushLen}

\* Text::as_str
Text_as_str(t) == IF t.inline THEN Take(t.s, t.len) ELSE t.s

VARIABLES tx_text, tx_before, tx_pushed, tx_called, tx_checks

txVars == <<tx_text, tx_before, tx_pushed, tx_called, tx_checks>>

TxInit ==
    /\ tx_text \in {TextFrom(Repeat("a", n)) : n \in TextLens}
    /\ tx_before = tx_text
    /\ tx_pushed \in {Repeat("x", n) : n \in PushLens}
    /\ tx_called = FALSE
    /\ tx_checks \in BOOLEAN

\* Text::push_str
TxPushStr ==
    /\ ~tx_called
    /\ tx_text' = Text_push_str(tx_text, tx_pushed, tx_checks)
    /\ tx_called' = TRUE
    /\ UNCHANGED <<tx_before, tx_pushed, tx_checks>>

(***************************************************************************)
(* lsp/client.rs: Client::on_request.  The parameters of a request are     *)
(* given by what the handler reads of them: whether a value deserializes,  *)
(* whether a glob compiles, what Uri::parse returns and whether the        *)
(* document could be shown.  rq_responses holds the calls of               *)
(* Client::respond made for the request handled last.                      *)
(***************************************************************************)
MaxServerRequests == 2

MaxRegistrations == 1

MaxFilters == 2

\* ResponseError::parse_error
ResponseError_parse_error ==
    [ok |-> FALSE, result |-> JsonNull, code |-> -32700, message |-> "ParseError",
     data |-> JsonNull]

\* ResponseError::method_not_found
ResponseError_method_not_found ==
    [ok |-> FALSE, result |-> JsonNull, code |-> -32601, message |-> "MethodNotFound",
     data |-> JsonNull]

\* Ok(value) of Result<JsonValue, ResponseError>
ResponseOk(value) ==
    [ok |-> TRUE, result |-> value, code |-> 0, message |-> "", data |-> JsonNull]

\* the elements of registerOptions.documentSelector
Filters ==
    {[well_formed |-> FALSE, pattern |-> "", compiles |-> FALSE],
     [well_formed |-> TRUE, pattern |-> "", compiles |-> FALSE],
     [well_formed |-> TRUE, pattern |-> "*.rs", compiles |-> TRUE],
     [well_formed |-> TRUE, pattern |-> "[", compiles |-> FALSE]}

FilterLists == UNION {[1..n -> Filters] : n \in 0..MaxFilters}

\* the elements of params.registrations
Registrations ==
    [well_formed : BOOLEAN, method : {"textDocument/didSave", "workspace/symbol"},
     filters : FilterLists]

RegistrationLists == UNION {[1..n -> Registrations] : n \in 0..MaxRegistrations}

\* the params of window/showMessage
ShowMessageParams ==
    {JsonNull} \cup
    {JsonObjectValue(members) :
        members \in {<<>>,
                     <<[key |-> "type", value |-> JsonInteger(1)],
                       [key |-> "message", value |-> JsonString("m")]>>,
                     <<[key |-> "message", value |-> JsonString("m")],
                       [key |-> "type", value |-> JsonInteger(3)]>>,
                     <<[key |-> "type", value |-> JsonInteger(5)]>>,
                     <<[key |-> "message", value |-> JsonNull]>>,
                     <<[key |-> "other", value |-> JsonNull]>>}}

\* the params of window/showDocument: uri is the result of Uri::parse
ShowDocumentParams ==
    [well_formed : BOOLEAN, uri : {"AbsolutePath", "RelativePath", "None"},
     external : {"None", "true", "false"}, shown : BOOLEAN]

ServerRequests ==
    {[id |-> id, method |-> "client/registerCapability", params |-> registrations] :
        id \in ServerRequestIds, registrations \in RegistrationLists}
    \cup {[id |-> id, method |-> "window/showMessage", params |-> params] :
        id \in ServerRequestIds, params \in ShowMessageParams}
    \cup {[id |-> id, method |-> "window/showDocument", params |-> params] :
        id \in ServerRequestIds, params \in ShowDocumentParams}
    \cup {[id |-> id, method |-> "workspace/configuration", params |-> JsonNull] :
        id \in ServerRequestIds}

\* a call of Client::respond
Response(request_id, result) == [request_id |-> request_id, result |-> result]

\* the deserialize! macro on a value that does not deserialize
deserialize_error == Response(JsonNull, ResponseError_parse_error)

\* the loop over the filters of a textDocument/didSave registration
RECURSIVE filters_loop(_, _, _, _)
filters_loop(request_id, filters, i, selectors) ==
    IF i > Len(filters)
    THEN [returned |-> FALSE, responses |-> <<>>, selectors |-> selectors]
    ELSE IF ~filters[i].well_formed
    THEN [returned |-> TRUE, responses |-> <<deserialize_error>>, selectors |-> selectors]
    ELSE IF filters[i].pattern = ""
    THEN filters_loop(request_id, filters, i + 1, selectors)
    ELSE IF ~filters[i].compiles
    THEN [returned |-> TRUE,
          responses |-> <<Response(request_id, ResponseError_parse_error)>>,
          selectors |-> <<>>]
    ELSE filters_loop(request_id, filters, i + 1, Append(selectors, filters[i].pattern))

\* the loop over the registrations of client/registerCapability
RECURSIVE registrations_loop(_, _, _, _)
registrations_loop(request_id, registrations, i, selectors) ==
    IF i > Len(registrations)
    THEN [returned |-> FALSE, responses |-> <<>>, selectors |-> selectors]
    ELSE IF ~registrations[i].well_formed
    THEN [returned |-> TRUE, responses |-> <<deserialize_error>>, selectors |-> selectors]
    ELSE IF registrations[i].method = "textDocument/didSave"
    THEN LET out == filters_loop(request_id, registrations[i].filters, 1, <<>>)
         IN IF out.returned THEN out
            ELSE registrations_loop(request_id, registrations, i + 1, out.selectors)
    ELSE registrations_loop(request_id, registrations, i + 1, selectors)

\* parse_params of window/showMessage over the members from the i-th on
RECURSIVE parse_params_members(_, _, _, _)
parse_params_members(members, i, kind, message) ==
    IF i > Len(members) THEN [ok |-> TRUE, kind |-> kind, message |-> message]
    ELSE IF members[i].key = "type"
    THEN IF members[i].value = JsonInteger(1)
         THEN parse_params_members(members, i + 1, "Error", message)
         ELSE IF members[i].value.type = "Integer" /\ members[i].value.n \in 2..4
         THEN parse_params_members(members, i + 1, "Info", message)
         ELSE [ok |-> FALSE, kind |-> kind, message |-> message]
    ELSE IF members[i].key = "message"
    THEN IF members[i].value.type = "String"
         THEN parse_params_members(members, i + 1, kind, members[i].value.s)
         ELSE [ok |-> FALSE, kind |-> kind, message |-> message]
    ELSE parse_params_members(members, i + 1, kind, message)

\* parse_params of window/showMessage
parse_params(params) ==
    IF params.type # "Object" THEN [ok |-> FALSE, kind |-> "Info", message |-> ""]
    ELSE parse_params_members(params.members, 1, "Info", "")

\* Client::on_request: the responses sent, the document selectors and the
\* status bar it leaves
on_request(request, selectors, status) ==
    IF request.method = "client/registerCapability"
    THEN LET out == registrations_loop(request.id, request.params, 1, selectors)
         IN [responses |-> IF out.returned THEN out.responses
                           ELSE <<Response(request.id, ResponseOk(JsonNull))>>,
             selectors |-> out.selectors, status |-> status]
    ELSE IF request.method = "window/showMessage"
    THEN LET parsed == parse_params(request.params)
         IN IF ~parsed.ok
            THEN [responses |-> <<Response(request.id, ResponseError_parse_error)>>,
                  selectors |-> selectors, status |-> status]
            ELSE [responses |-> <<Response(request.id, ResponseOk(JsonNull))>>,
                  selectors |-> selectors,
                  status |-> [kind |-> parsed.kind, message |-> parsed.message]]
    ELSE IF request.method = "window/showDocument"
    THEN IF ~request.params.well_formed
         THEN [responses |-> <<deserialize_error>>, selectors |-> selectors,
               status |-> status]
         ELSE IF request.params.uri = "None"
         THEN [responses |-> <<>>, selectors |-> selectors, status |-> status]
         ELSE LET success == IF request.params.external = "true" THEN FALSE
                             ELSE request.params.shown
              IN [responses |-> <<Response(request.id,
                        ResponseOk(JsonObjectValue(
                            JsonObject_set(JsonObject_default, "success", success))))>>,
                  selectors |-> selectors, status |-> status]
    ELSE [responses |-> <<Response(request.id, ResponseError_method_not_found)>>,
          selectors |-> selectors, status |-> status]

NoRequest == [id |-> JsonNull, method |-> "", params |-> JsonNull]

VARIABLES rq_request, rq_responses, document_selectors, rq_status_bar, rq_requests

rqVars == <<rq_request, rq_responses, document_selectors, rq_status_bar, rq_requests>>

\* Client::new
RqInit ==
    /\ rq_request = NoRequest
    /\ rq_responses = <<>>
    /\ document_selectors = <<>>
    /\ rq_status_bar = [kind |-> "None", message |-> ""]
    /\ rq_requests = 0

\* ServerEvent::Request(request): Client::on_request
RqOnRequest(request) ==
    /\ rq_requests < MaxServerRequests
    /\ rq_requests' = rq_requests + 1
    /\ rq_request' = request
    /\ \E out \in {on_request(request, document_selectors, rq_status_bar)} :
          /\ rq_responses' = out.responses
          /\ document_selectors' = out.selectors
          /\ rq_status_bar' = out.status

(***************************************************************************)
(* lsp/client.rs: ClientManager::start, stop, on_process_spawned,          *)
(* on_process_output and on_process_exit.  A process spawned for a client  *)
(* carries the tag ProcessTag::Lsp(handle); the platform reports its       *)
(* output and its exit with that tag, whether or not the client it was     *)
(* spawned for is still in the slot.  The n-th client started is client n. *)
(***************************************************************************)
MaxStarts == 3

MaxOutputs == 2

MaxOutputEvents == 2

ServerEventKinds == {"Closed", "ParseError", "Request", "Notification", "Response"}

\* the events ServerEventIter yields for the bytes of one output
OutputEvents == UNION {[1..n -> ServerEventKinds] : n \in 1..MaxOutputEvents}

\* Option<ClientManagerEntry>::None
NoEntry == [present |-> FALSE, client |-> 0, initialized |-> FALSE, handled |-> 0]

\* Some(ClientManagerEntry { client: Client::new(..), json })
NewEntry(n) == [present |-> TRUE, client |-> n, initialized |-> FALSE, handled |-> 0]

NoHandle == -1

\* ClientManager::find_free_slot: the handle and the entries, grown by one
\* slot where none is free
find_free_slot(slots) ==
    IF \E i \in 1..Len(slots) : ~slots[i].present
    THEN [handle |-> (CHOOSE i \in 1..Len(slots) :
                        /\ ~slots[i].present
                        /\ \A j \in 1..(i - 1) : slots[j].present) - 1,
          entries |-> slots]
    ELSE [handle |-> Len(slots), entries |-> Append(slots, NoEntry)]

\* ClientManager::start
ClientManager_start(slots, n) ==
    LET free == find_free_slot(slots)
    IN [handle |-> free.handle,
        entries |-> [free.entries EXCEPT ![free.handle + 1] = NewEntry(n)]]

\* ClientManager::stop: the exit notification goes out where there is an entry
ClientManager_stop(slots, handle) ==
    IF slots[handle + 1].present
    THEN [notified |-> TRUE, entries |-> [slots EXCEPT ![handle + 1] = NoEntry]]
    ELSE [notified |-> FALSE, entries |-> slots]

\* the loop of on_process_output over the events: the entry was taken out
\* of its slot, Closed stops the handle, every other event goes to the client
RECURSIVE output_loop(_, _, _, _, _)
output_loop(slots, handle, taken, output, i) ==
    IF i > Len(output) THEN [entries |-> slots, taken |-> taken]
    ELSE IF output[i] = "Closed"
    THEN output_loop(ClientManager_stop(slots, handle).entries, handle, taken, output, i + 1)
    ELSE output_loop(slots, handle, [taken EXCEPT !.handled = @ + 1], output, i + 1)

\* ClientManager::on_process_output
on_process_output(slots, handle, output) ==
    IF ~slots[handle + 1].present THEN slots
    ELSE LET out == output_loop([slots EXCEPT ![handle + 1] = NoEntry], handle,
                                slots[handle + 1], output, 1)
         IN [out.entries EXCEPT ![handle + 1] = out.taken]

NoManagerEvent ==
    [kind |-> "none", handle |-> NoHandle, process |-> 0, closed |-> FALSE,
     before |-> NoEntry]

VARIABLES entries, running_client, mg_processes, mg_removed, mg_event, mg_starts,
          mg_outputs

mgVars == <<entries, running_client, mg_processes, mg_removed, mg_event, mg_starts,
            mg_outputs>>

\* ClientManager::new
MgInit ==
    /\ entries = <<>>
    /\ running_client = NoHandle
    /\ mg_processes = {}
    /\ mg_removed = {}
    /\ mg_event = NoManagerEvent
    /\ mg_starts = 0
    /\ mg_outputs = 0

\* ClientManager::start, called for a recipe by on_editor_events (a recipe
\* that has a running client starts none) or for a command
MgStart(by_recipe) ==
    /\ mg_starts < MaxStarts
    /\ by_recipe => running_client = NoHandle
    /\ mg_starts' = mg_starts + 1
    /\ \E started \in {ClientManager_start(entries, mg_starts + 1)} :
          /\ entries' = started.entries
          /\ running_client' = IF by_recipe THEN started.handle ELSE running_client
          /\ mg_processes' = mg_processes \cup
                {[tag |-> started.handle, client |-> mg_starts + 1, spawned |-> FALSE]}
          /\ mg_event' = [NoManagerEvent EXCEPT !.kind = "start", !.handle = started.handle,
                                                !.process = mg_starts + 1]
    /\ UNCHANGED <<mg_removed, mg_outputs>>

\* ClientManager::stop
MgStop(handle) ==
    /\ handle + 1 \in 1..Len(entries)
    /\ entries[handle + 1].present
    /\ entries' = ClientManager_stop(entries, handle).entries
    /\ mg_removed' = mg_removed \cup {entries[handle + 1].client}
    /\ mg_event' = [NoManagerEvent EXCEPT !.kind = "stop", !.handle = handle,
                                          !.before = entries[handle + 1]]
    /\ UNCHANGED <<running_client, mg_processes, mg_starts, mg_outputs>>

\* ProcessSpawned { tag: Lsp(handle) }: ClientManager::on_process_spawned
MgProcessSpawned(process) ==
    /\ ~process.spawned
    /\ mg_processes' = (mg_processes \ {process}) \cup {[process EXCEPT !.spawned = TRUE]}
    /\ entries' = IF entries[process.tag + 1].present
                  THEN [entries EXCEPT ![process.tag + 1].initialized = TRUE]
                  ELSE entries
    /\ mg_event' = [NoManagerEvent EXCEPT !.kind = "spawned", !.handle = process.tag,
                                          !.process = process.client,
                                          !.before = entries[process.tag + 1]]
    /\ UNCHANGED <<running_client, mg_removed, mg_starts, mg_outputs>>

\* ProcessOutput { tag: Lsp(handle), buf }: ClientManager::on_process_output
MgProcessOutput(process, output) ==
    /\ process.spawned
    /\ mg_outputs < MaxOutputs
    /\ mg_outputs' = mg_outputs + 1
    /\ entries' = on_process_output(entries, process.tag, output)
    /\ mg_event' = [kind |-> "output", handle |-> process.tag, process |-> process.client,
                    closed |-> \E i \in 1..Len(output) : output[i] = "Closed",
                    before |-> entries[process.tag + 1]]
    /\ UNCHANGED <<running_client, mg_processes, mg_removed, mg_starts>>

\* ProcessExit { tag: Lsp(handle) }: ClientManager::on_process_exit
MgProcessExit(process) ==
    /\ process.spawned
    /\ mg_processes' = mg_processes \ {process}
    /\ entries' = [entries EXCEPT ![process.tag + 1] = NoEntry]
    /\ running_client' = IF running_client = process.tag THEN NoHandle ELSE running_client
    /\ mg_removed' = IF entries[process.tag + 1].present
                     THEN mg_removed \cup {entries[process.tag + 1].client}
                     ELSE mg_removed
    /\ mg_event' = [NoManagerEvent EXCEPT !.kind = "exit", !.handle = process.tag,
                                          !.process = process.client,
                                          !.before = entries[process.tag + 1]]
    /\ UNCHANGED <<mg_starts, mg_outputs>>

(***************************************************************************)
(* platforms/linux.rs: run_server and the connections of the clients.      *)
(* The application queues WriteToClient and CloseClient requests for the   *)
(* handles it was told of; the server takes the queue, accepts             *)
(* connections and reads from them.  cn_sent holds the ConnectionOpen and  *)
(* ConnectionClose events the server sent.                                 *)
(***************************************************************************)
MaxAccepts == 2

MaxQueued == 2

MaxEnqueued == 3

ConnectionHandles == 0..(MAX_CLIENT_COUNT - 1)

PlatformRequests ==
    [kind : {"WriteToClient", "CloseClient"}, handle : ConnectionHandles]

\* the events of a kind sent for the handle
sent_count(sent, kind, handle) ==
    Cardinality({i \in 1..Len(sent) : sent[i] = [kind |-> kind, handle |-> handle]})

\* the loop over request_receiver.try_iter(): write_ok[i] tells whether the
\* write of the i-th request succeeds
RECURSIVE requests_loop(_, _, _, _)
requests_loop(st, requests, write_ok, i) ==
    IF i > Len(requests) THEN st
    ELSE LET handle == requests[i].handle
             close == [kind |-> "ConnectionClose", handle |-> handle]
         IN IF requests[i].kind = "WriteToClient"
            THEN IF st.connections[handle] /\ ~write_ok[i]
                 THEN requests_loop(
                        [st EXCEPT !.connections[handle] = FALSE,
                                   !.epoll = @ \ {CLIENTS_START_INDEX + handle},
                                   !.sent = Append(@, close)],
                        requests, write_ok, i + 1)
                 ELSE requests_loop(st, requests, write_ok, i + 1)
            ELSE requests_loop(
                    [st EXCEPT !.connections[handle] = FALSE,
                               !.epoll = @ \ {CLIENTS_START_INDEX + handle},
                               !.sent = Append(@, close),
                               !.closed_none[handle] =
                                    IF st.connections[handle] THEN @ ELSE @ + 1],
                    requests, write_ok, i + 1)

VARIABLES client_connections, cn_epoll, cn_sent, cn_requests, cn_closed_none, cn_accepts,
          cn_enqueued

cnVars == <<client_connections, cn_epoll, cn_sent, cn_requests, cn_closed_none,
            cn_accepts, cn_enqueued>>

\* run_server before the loop: no connection, the listener waits
CnInit ==
    /\ client_connections = [handle \in ConnectionHandles |-> FALSE]
    /\ cn_epoll = {}
    /\ cn_sent = <<>>
    /\ cn_requests = <<>>
    /\ cn_closed_none = [handle \in ConnectionHandles |-> 0]
    /\ cn_accepts = 0
    /\ cn_enqueued = 0

\* the application queues a request for a handle it got a ConnectionOpen for
CnEnqueue(request) ==
    /\ cn_enqueued < MaxEnqueued
    /\ Len(cn_requests) < MaxQueued
    /\ sent_count(cn_sent, "ConnectionOpen", request.handle) > 0
    /\ cn_enqueued' = cn_enqueued + 1
    /\ cn_requests' = Append(cn_requests, request)
    /\ UNCHANGED <<client_connections, cn_epoll, cn_sent, cn_closed_none, cn_accepts>>

\* event 0: the queued requests are taken
CnRequests(write_ok) ==
    /\ cn_requests # <<>>
    /\ \E out \in {requests_loop([connections |-> client_connections, epoll |-> cn_epoll,
                                  sent |-> cn_sent, closed_none |-> cn_closed_none],
                                 cn_requests, write_ok, 1)} :
          /\ client_connections' = out.connections
          /\ cn_epoll' = out.epoll
          /\ cn_sent' = out.sent
          /\ cn_closed_none' = out.closed_none
    /\ cn_requests' = <<>>
    /\ UNCHANGED <<cn_accepts, cn_enqueued>>

\* event 1: listener.accept; the connection goes to the first free slot and
\* is dropped where there is none
CnAccept ==
    /\ cn_accepts < MaxAccepts
    /\ cn_accepts' = cn_accepts + 1
    /\ IF \E i \in ConnectionHandles : ~client_connections[i]
       THEN \E i \in ConnectionHandles :
               /\ ~client_connections[i]
               /\ \A j \in 0..(i - 1) : client_connections[j]
               /\ client_connections' = [client_connections EXCEPT ![i] = TRUE]
               /\ cn_epoll' = cn_epoll \cup {CLIENTS_START_INDEX + i}
               /\ cn_sent' = Append(cn_sent, [kind |-> "ConnectionOpen", handle |-> i])
       ELSE UNCHANGED <<client_connections, cn_epoll, cn_sent>>
    /\ UNCHANGED <<cn_requests, cn_closed_none, cn_enqueued>>

\* a client event for an open connection whose read returns Ok(0) or Err
CnReadClosed(event_index) ==
    /\ event_index \in CLIENTS_START_INDEX..CLIENTS_LAST_INDEX
    /\ client_connections[event_index - CLIENTS_START_INDEX]
    /\ client_connections' =
            [client_connections EXCEPT ![event_index - CLIENTS_START_INDEX] = FALSE]
    /\ cn_epoll' = cn_epoll \ {event_index}
    /\ cn_sent' = Append(cn_sent, [kind |-> "ConnectionClose",
                                   handle |-> event_index - CLIENTS_START_INDEX])
    /\ UNCHANGED <<cn_requests, cn_closed_none, cn_accepts, cn_enqueued>>

(***************************************************************************)
(* lsp/protocol.rs: the reader thread of ServerConnection::spawn.  It      *)
(* calls read_content_from in a loop, sends Closed and stops when the      *)
(* slice returned is empty.  The stream ends after its frames: from then   *)
(* on a read returns Ok(0).  A read may fail at any time.                  *)
(***************************************************************************)
MaxZeroReads == 3

VARIABLES rd_zero_reads, rd_closed

rdVars == <<rd_zero_reads, rd_closed>>

rdThreadVars == <<rbVars, rdVars>>

\* thread::spawn: the buffer is new, nothing was read
RdInit ==
    /\ RbInit
    /\ rd_zero_reads = 0
    /\ rd_closed = FALSE

\* an iteration at the end of the stream: the buffer grows as needed and
\* reader.read returns Ok(0)
RbReadZero ==
    /\ rb_pc = "loop"
    /\ rb_stream = <<>>
    /\ \E s \in {ReadBuf_find_header(rb)} :
          /\ ~ReadBuf_complete(s)
          /\ ~(s.read_index > Len(s.buf) \div 2)
          /\ \E g \in {ReadBuf_grow(s)} :
                /\ rb' = ReadBuf_read(g, <<>>)
                /\ rb_grew' = (rb_grew \/ Len(g.buf) > Len(s.buf))
    /\ UNCHANGED <<rb_pc, rb_stream, rb_frames, rb_returned, rb_compacted>>

\* an iteration whose read returns Err: the indexes are reset and the call
\* returns the empty slice
RbReadErr ==
    /\ rb_pc = "loop"
    /\ \E s \in {ReadBuf_find_header(rb)} :
          /\ ~ReadBuf_complete(s)
          /\ ~(s.read_index > Len(s.buf) \div 2)
          /\ \E g \in {ReadBuf_grow(s)} :
                /\ rb' = [g EXCEPT !.read_index = 0, !.write_index = 0]
                /\ rb_grew' = (rb_grew \/ Len(g.buf) > Len(s.buf))
    /\ rb_returned' = Append(rb_returned, <<>>)
    /\ rb_pc' = "idle"
    /\ UNCHANGED <<rb_stream, rb_frames, rb_compacted>>

\* the thread calls read_content_from
RdCall ==
    /\ ~rd_closed
    /\ RbCall
    /\ UNCHANGED rdVars

\* read_content_from returns: an empty slice makes the thread send Closed
\* and break, any other is parsed and sent as an event
RdReturn ==
    /\ RbReturn
    /\ rd_closed' = (rb_returned'[Len(rb_returned')] = <<>>)
    /\ UNCHANGED rd_zero_reads

RdCompact == RbCompact /\ UNCHANGED rdVars

RdRead(len) == RbRead(len) /\ UNCHANGED rdVars

\* a read at the end of the stream
RdReadZero ==
    /\ RbReadZero
    /\ rd_zero_reads' = Min(rd_zero_reads + 1, MaxZeroReads)
    /\ UNCHANGED rd_closed

\* a read fails: the thread sends Closed and breaks
RdReadErr ==
    /\ RbReadErr
    /\ rd_closed' = TRUE
    /\ UNCHANGED rd_zero_reads

(***************************************************************************)
(* lib/command.rs: CommandIter.  The input is a sequence of characters;    *)
(* self.0 is the suffix of the input that starts at the offset ci_rest.    *)
(* A command is yielded as the offsets of its slice.                       *)
(***************************************************************************)
MaxInputLen == 4

InputChars == {"a", " ", "\n", "\\", "#"}

CommandInputs == UNION {[1..n -> InputChars] : n \in 0..MaxInputLen}

\* str::trim_start: the offset of the first character from pos on that is
\* no white space
RECURSIVE str_trim_start(_, _)
str_trim_start(input, pos) ==
    IF pos < Len(input) /\ input[pos + 1] \in {" ", "\n"} THEN str_trim_start(input, pos + 1)
    ELSE pos

\* the while loop of the comment arm: the index of the end of the line
RECURSIVE comment_end(_, _, _)
comment_end(input, pos, i) ==
    IF i < Len(input) - pos /\ input[pos + i + 1] # "\n" THEN comment_end(input, pos, i + 1)
    ELSE i

\* the inner loop of next over the bytes of self.0 from the index i on:
\* a command, a break with nothing yielded, or the panic of bytes[i] with
\* i past the end
RECURSIVE command_scan(_, _, _)
command_scan(input, pos, i) ==
    IF i = Len(input) - pos
    THEN [kind |-> "Some", start |-> pos, end |-> Len(input), rest |-> Len(input)]
    ELSE IF i > Len(input) - pos
    THEN [kind |-> "panic", start |-> pos, end |-> pos, rest |-> pos]
    ELSE IF input[pos + i + 1] = "\n"
    THEN [kind |-> IF i = 0 THEN "break" ELSE "Some", start |-> pos, end |-> pos + i,
          rest |-> pos + i]
    ELSE IF input[pos + i + 1] = "\\"
    THEN command_scan(input, pos, i + 2)
    ELSE IF input[pos + i + 1] = "#"
    THEN [kind |-> IF i = 0 THEN "break" ELSE "Some", start |-> pos, end |-> pos + i,
          rest |-> pos + comment_end(input, pos, i)]
    ELSE command_scan(input, pos, i + 1)

\* CommandIter::next with self.0 at the offset pos
RECURSIVE CommandIter_next(_, _)
CommandIter_next(input, pos) ==
    LET trimmed == str_trim_start(input, pos)
    IN IF trimmed = Len(input)
       THEN [kind |-> "None", start |-> trimmed, end |-> trimmed, rest |-> trimmed]
       ELSE LET out == command_scan(input, trimmed, 0)
            IN IF out.kind = "break" THEN CommandIter_next(input, out.rest) ELSE out

VARIABLES ci_input, ci_rest, ci_yielded, ci_done, ci_panicked

ciVars == <<ci_input, ci_rest, ci_yielded, ci_done, ci_panicked>>

\* CommandIter::new
CiInit ==
    /\ ci_input \in CommandInputs
    /\ ci_rest = 0
    /\ ci_yielded = <<>>
    /\ ci_done = FALSE
    /\ ci_panicked = FALSE

\* CommandIter::next
CiNext ==
    /\ ~ci_done
    /\ ~ci_panicked
    /\ \E out \in {CommandIter_next(ci_input, ci_rest)} :
          /\ ci_rest' = out.rest
          /\ ci_yielded' = IF out.kind = "Some"
                           THEN Append(ci_yielded, [start |-> out.start, end |-> out.end])
                           ELSE ci_yielded
          /\ ci_done' = (out.kind = "None")
          /\ ci_panicked' = (out.kind = "panic")
    /\ UNCHANGED ci_input

(***************************************************************************)
(* Specifications.  Each one runs one part of the program; the variables   *)
(* of the other parts stay at their parked values.                         *)
(***************************************************************************)
vars == <<undoVars, rtVars, lspVars, rbVars, rsVars, psVars, bpVars, bcVars, cvVars, wdVars, cmdVars, hsVars, dpVars, opVars, cfVars, sbVars, pwVars, urVars, dcVars, evVars, kyVars, lpVars, txVars, rqVars, mgVars, cnVars, rdVars, ciVars>>

UndoParked ==
    /\ buffer = Buffer_new(<<<<>>>>) /\ initial_content = <<<<>>>> /\ edit_count = 0
    /\ undo_phase = "off" /\ undo_yielded = <<>> /\ overflow_checks = FALSE

RtParked ==
    /\ rt_initial = <<<<>>>> /\ rt_lines = <<<<>>>> /\ rt_text = <<>>
    /\ rt_range = Rng(Pos(0, 0), Pos(0, 0)) /\ rt_phase = "off"
    /\ rt_panicked = FALSE /\ rt_checks = FALSE

LspParked ==
    /\ editor_buffers = <<>> /\ next_uid = 0 /\ client = Client_new
    /\ server_docs = [p \in Paths |-> NoDocument] /\ lsp_edit_count = 0
    /\ replied = {} /\ last_reply = [id |-> 0, before |-> 0, after |-> 0]
    /\ request_origin = <<>> /\ formatting_applied = {}
    /\ last_publish = [path |-> "", diagnostics |-> <<>>]

RbParked ==
    /\ rb = ReadBuf_new /\ rb_pc = "off" /\ rb_stream = <<>> /\ rb_frames = <<>>
    /\ rb_returned = <<>> /\ rb_compacted = FALSE /\ rb_grew = FALSE

RsParked ==
    /\ residue = ResidualStrBytes_default /\ rs_message = <<>> /\ rs_stream = <<>>
    /\ rs_chunks = <<>> /\ rs_out = <<>> /\ rs_flushed = TRUE

PsParked ==
    /\ processes = [i \in ProcessHandles |-> NONE_PROCESS] /\ epoll = {}
    /\ events = <<>> /\ spawn_count = MaxSpawns

BpParked ==
    /\ buf_pool = BufPool_default /\ bufs_made = 0 /\ event_bufs = <<>>
    /\ request_bufs = <<>> /\ dropped_bufs = {}

BcParked == bc_lines = <<<<>>>> /\ bc_panicked = FALSE /\ bc_edits = MaxEdits

CvParked ==
    /\ cv_buffers = <<>> /\ cv_views = <<>> /\ cv_current = [c \in ClientIds |-> -1]
    /\ cv_joined = {} /\ focused_client = 0

WdParked ==
    /\ wd_lines = <<<<>>>> /\ wd_live = FALSE /\ word_database = WordDatabase_new
    /\ wd_history = [edits |-> <<>>, done |-> 0] /\ wd_steps = MaxWordSteps

CmdParked ==
    /\ cmd_text = <<>>
    /\ cmd_parsed = TRUE
    /\ cmd_result = CommandParseError("", StaticStr(<<>>))
    /\ cmd_display = NoDisplay

HsParked ==
    /\ cm_history = <<>> /\ cm_capacity = 0 /\ cm_added = <<>> /\ cm_calls = MaxHistoryCalls

DpParked ==
    /\ dp_lines = <<<<>>>> /\ dp_position = Pos(0, 0) /\ dp_called = TRUE
    /\ dp_result = NoRange

OpParked ==
    /\ op_args = <<>> /\ op_called = TRUE /\ op_result = OpenError("")

CfParked ==
    /\ config_content = <<>> /\ config_loaded = TRUE /\ config_evaluated = <<>>
    /\ status_bar = NoStatus

SbParked ==
    /\ sb_buffer = Buffer_new(<<<<>>>>) /\ search_ranges = <<>> /\ sb_words = WordDatabase_new
    /\ sb_steps = MaxSearchSteps /\ sb_call = NoCall

PwParked ==
    /\ next_request_id = 1 /\ sent_bodies = <<[kind |-> "parked", body |-> <<>>]>>

UrParked ==
    /\ ur_undo = Undo_new /\ ur_groups = <<>> /\ ur_open = FALSE
    /\ ur_calls = <<[op |-> "parked", edits |-> <<>>]>>

DcParked ==
    /\ dc_capabilities = Capabilities_default /\ dc_buffers = <<>>
    /\ dc_versioned_buffers = <<>> /\ dc_sent = <<>>

EvParked ==
    /\ ev_events = <<>> /\ ev_reported = <<>> /\ ev_handled = <<>> /\ ev_timeout = FALSE
    /\ ev_waits = MaxWaits /\ ev_idle_owed = FALSE

KyParked ==
    /\ buffered_keys = <<>> /\ ky_focused_client = 0 /\ ky_pending = FALSE /\ ky_index = 0
    /\ ky_result = "Parked" /\ ky_event = NoKeyEvent /\ ky_events = MaxKeyEvents

LpParked ==
    /\ lp_content = pooled_from_str(<<>>) /\ lp_checks = FALSE /\ lp_steps = MaxPoolSteps

TxParked ==
    /\ tx_text = TextNew /\ tx_before = TextNew /\ tx_pushed = <<>> /\ tx_called = TRUE
    /\ tx_checks = FALSE

RqParked ==
    /\ rq_request = NoRequest /\ rq_responses = <<>> /\ document_selectors = <<>>
    /\ rq_status_bar = [kind |-> "None", message |-> ""] /\ rq_requests = MaxServerRequests

MgParked ==
    /\ entries = <<>> /\ running_client = NoHandle /\ mg_processes = {} /\ mg_removed = {}
    /\ mg_event = NoManagerEvent /\ mg_starts = MaxStarts /\ mg_outputs = MaxOutputs

CnParked ==
    /\ client_connections = [handle \in ConnectionHandles |-> FALSE] /\ cn_epoll = {}
    /\ cn_sent = <<>> /\ cn_requests = <<>>
    /\ cn_closed_none = [handle \in ConnectionHandles |-> 0]
    /\ cn_accepts = MaxAccepts /\ cn_enqueued = MaxEnqueued

RdParked ==
    /\ rd_zero_reads = 0 /\ rd_closed = TRUE

CiParked ==
    /\ ci_input = <<>> /\ ci_rest = 0 /\ ci_yielded = <<>> /\ ci_done = TRUE
    /\ ci_panicked = FALSE

SpecUndoInit == UndoInit /\ RtParked /\ LspParked /\ RbParked /\ RsParked /\ PsParked /\ BpParked /\ BcParked /\ CvParked /\ WdParked /\ CmdParked /\ HsParked /\ DpParked /\ OpParked /\ CfParked /\ SbParked /\ PwParked /\ UrParked /\ DcParked /\ EvParked /\ KyParked /\ LpParked /\ TxParked /\ RqParked /\ MgParked /\ CnParked /\ RdParked /\ CiParked

SpecUndoNext ==
    \/ (\E p \in PositionSet, t \in EditTexts : UndoInsertText(p, t)) /\ UNCHANGED <<rtVars, lspVars, rbVars, rsVars, psVars, bpVars, bcVars, cvVars, wdVars, cmdVars, hsVars, dpVars, opVars, cfVars, sbVars, pwVars, urVars, dcVars, evVars, kyVars, lpVars, txVars, rqVars, mgVars, cnVars, rdVars, ciVars>>
    \/ (\E r \in RangeSet : UndoDeleteRange(r)) /\ UNCHANGED <<rtVars, lspVars, rbVars, rsVars, psVars, bpVars, bcVars, cvVars, wdVars, cmdVars, hsVars, dpVars, opVars, cfVars, sbVars, pwVars, urVars, dcVars, evVars, kyVars, lpVars, txVars, rqVars, mgVars, cnVars, rdVars, ciVars>>
    \/ UndoCommitEdits /\ UNCHANGED <<rtVars, lspVars, rbVars, rsVars, psVars, bpVars, bcVars, cvVars, wdVars, cmdVars, hsVars, dpVars, opVars, cfVars, sbVars, pwVars, urVars, dcVars, evVars, kyVars, lpVars, txVars, rqVars, mgVars, cnVars, rdVars, ciVars>>
    \/ UndoUndo /\ UNCHANGED <<rtVars, lspVars, rbVars, rsVars, psVars, bpVars, bcVars, cvVars, wdVars, cmdVars, hsVars, dpVars, opVars, cfVars, sbVars, pwVars, urVars, dcVars, evVars, kyVars, lpVars, txVars, rqVars, mgVars, cnVars, rdVars, ciVars>>

SpecUndo == SpecUndoInit /\ [][SpecUndoNext]_vars

SpecRoundTripInit == RtInit /\ UndoParked /\ LspParked /\ RbParked /\ RsParked /\ PsParked /\ BpParked /\ BcParked /\ CvParked /\ WdParked /\ CmdParked /\ HsParked /\ DpParked /\ OpParked /\ CfParked /\ SbParked /\ PwParked /\ UrParked /\ DcParked /\ EvParked /\ KyParked /\ LpParked /\ TxParked /\ RqParked /\ MgParked /\ CnParked /\ RdParked /\ CiParked

SpecRoundTripNext ==
    \/ (\E p \in PositionSet, t \in RoundTripTexts : RtInsertText(p, t)) /\ UNCHANGED <<undoVars, lspVars, rbVars, rsVars, psVars, bpVars, bcVars, cvVars, wdVars, cmdVars, hsVars, dpVars, opVars, cfVars, sbVars, pwVars, urVars, dcVars, evVars, kyVars, lpVars, txVars, rqVars, mgVars, cnVars, rdVars, ciVars>>
    \/ RtDeleteRange /\ UNCHANGED <<undoVars, lspVars, rbVars, rsVars, psVars, bpVars, bcVars, cvVars, wdVars, cmdVars, hsVars, dpVars, opVars, cfVars, sbVars, pwVars, urVars, dcVars, evVars, kyVars, lpVars, txVars, rqVars, mgVars, cnVars, rdVars, ciVars>>

SpecRoundTrip == SpecRoundTripInit /\ [][SpecRoundTripNext]_vars

SpecLspInit == LspInit /\ UndoParked /\ RtParked /\ RbParked /\ RsParked /\ PsParked /\ BpParked /\ BcParked /\ CvParked /\ WdParked /\ CmdParked /\ HsParked /\ DpParked /\ OpParked /\ CfParked /\ SbParked /\ PwParked /\ UrParked /\ DcParked /\ EvParked /\ KyParked /\ LpParked /\ TxParked /\ RqParked /\ MgParked /\ CnParked /\ RdParked /\ CiParked

\* document synchronisation: buffers are opened, edited, saved and closed
SpecLspSyncNext ==
    \/ (\E p \in Paths, t \in LspInitialTexts : LspOpenBuffer(p, t)) /\ UNCHANGED <<undoVars, rtVars, rbVars, rsVars, psVars, bpVars, bcVars, cvVars, wdVars, cmdVars, hsVars, dpVars, opVars, cfVars, sbVars, pwVars, urVars, dcVars, evVars, kyVars, lpVars, txVars, rqVars, mgVars, cnVars, rdVars, ciVars>>
    \/ (\E h \in 0..(MaxBuffers - 1), p \in PositionSet, t \in LspEditTexts :
            LspInsertText(h, p, t)) /\ UNCHANGED <<undoVars, rtVars, rbVars, rsVars, psVars, bpVars, bcVars, cvVars, wdVars, cmdVars, hsVars, dpVars, opVars, cfVars, sbVars, pwVars, urVars, dcVars, evVars, kyVars, lpVars, txVars, rqVars, mgVars, cnVars, rdVars, ciVars>>
    \/ (\E h \in 0..(MaxBuffers - 1), r \in RangeSet : LspDeleteRange(h, r))
            /\ UNCHANGED <<undoVars, rtVars, rbVars, rsVars, psVars, bpVars, bcVars, cvVars, wdVars, cmdVars, hsVars, dpVars, opVars, cfVars, sbVars, pwVars, urVars, dcVars, evVars, kyVars, lpVars, txVars, rqVars, mgVars, cnVars, rdVars, ciVars>>
    \/ LspIdle /\ UNCHANGED <<undoVars, rtVars, rbVars, rsVars, psVars, bpVars, bcVars, cvVars, wdVars, cmdVars, hsVars, dpVars, opVars, cfVars, sbVars, pwVars, urVars, dcVars, evVars, kyVars, lpVars, txVars, rqVars, mgVars, cnVars, rdVars, ciVars>>
    \/ (\E h \in 0..(MaxBuffers - 1) : LspSaveBuffer(h)) /\ UNCHANGED <<undoVars, rtVars, rbVars, rsVars, psVars, bpVars, bcVars, cvVars, wdVars, cmdVars, hsVars, dpVars, opVars, cfVars, sbVars, pwVars, urVars, dcVars, evVars, kyVars, lpVars, txVars, rqVars, mgVars, cnVars, rdVars, ciVars>>
    \/ (\E h \in 0..(MaxBuffers - 1) : LspCloseBuffer(h)) /\ UNCHANGED <<undoVars, rtVars, rbVars, rsVars, psVars, bpVars, bcVars, cvVars, wdVars, cmdVars, hsVars, dpVars, opVars, cfVars, sbVars, pwVars, urVars, dcVars, evVars, kyVars, lpVars, txVars, rqVars, mgVars, cnVars, rdVars, ciVars>>
    \/ LspReplies(SyncCapabilities, FormattingEdits) /\ UNCHANGED <<undoVars, rtVars, rbVars, rsVars, psVars, bpVars, bcVars, cvVars, wdVars, cmdVars, hsVars, dpVars, opVars, cfVars, sbVars, pwVars, urVars, dcVars, evVars, kyVars, lpVars, txVars, rqVars, mgVars, cnVars, rdVars, ciVars>>

SpecLspSync == SpecLspInit /\ [][SpecLspSyncNext]_vars

\* requests and their replies, with buffers opened and closed in between
SpecLspRequestsNext ==
    \/ (\E p \in Paths, t \in LspInitialTexts : LspOpenBuffer(p, t)) /\ UNCHANGED <<undoVars, rtVars, rbVars, rsVars, psVars, bpVars, bcVars, cvVars, wdVars, cmdVars, hsVars, dpVars, opVars, cfVars, sbVars, pwVars, urVars, dcVars, evVars, kyVars, lpVars, txVars, rqVars, mgVars, cnVars, rdVars, ciVars>>
    \/ (\E h \in 0..(MaxBuffers - 1) : LspCloseBuffer(h)) /\ UNCHANGED <<undoVars, rtVars, rbVars, rsVars, psVars, bpVars, bcVars, cvVars, wdVars, cmdVars, hsVars, dpVars, opVars, cfVars, sbVars, pwVars, urVars, dcVars, evVars, kyVars, lpVars, txVars, rqVars, mgVars, cnVars, rdVars, ciVars>>
    \/ (\E h \in 0..(MaxBuffers - 1) : LspFormatting(h)) /\ UNCHANGED <<undoVars, rtVars, rbVars, rsVars, psVars, bpVars, bcVars, cvVars, wdVars, cmdVars, hsVars, dpVars, opVars, cfVars, sbVars, pwVars, urVars, dcVars, evVars, kyVars, lpVars, txVars, rqVars, mgVars, cnVars, rdVars, ciVars>>
    \/ (\E h \in 0..(MaxBuffers - 1) : LspHover(h)) /\ UNCHANGED <<undoVars, rtVars, rbVars, rsVars, psVars, bpVars, bcVars, cvVars, wdVars, cmdVars, hsVars, dpVars, opVars, cfVars, sbVars, pwVars, urVars, dcVars, evVars, kyVars, lpVars, txVars, rqVars, mgVars, cnVars, rdVars, ciVars>>
    \/ LspIdle /\ UNCHANGED <<undoVars, rtVars, rbVars, rsVars, psVars, bpVars, bcVars, cvVars, wdVars, cmdVars, hsVars, dpVars, opVars, cfVars, sbVars, pwVars, urVars, dcVars, evVars, kyVars, lpVars, txVars, rqVars, mgVars, cnVars, rdVars, ciVars>>
    \/ LspReplies(RequestCapabilities, FormattingEdits) /\ UNCHANGED <<undoVars, rtVars, rbVars, rsVars, psVars, bpVars, bcVars, cvVars, wdVars, cmdVars, hsVars, dpVars, opVars, cfVars, sbVars, pwVars, urVars, dcVars, evVars, kyVars, lpVars, txVars, rqVars, mgVars, cnVars, rdVars, ciVars>>

SpecLspRequests == SpecLspInit /\ [][SpecLspRequestsNext]_vars

\* diagnostics published for paths, with buffers opened, saved and closed
SpecLspDiagnosticsNext ==
    \/ (\E p \in Paths, t \in {<<>>} : LspOpenBuffer(p, t)) /\ UNCHANGED <<undoVars, rtVars, rbVars, rsVars, psVars, bpVars, bcVars, cvVars, wdVars, cmdVars, hsVars, dpVars, opVars, cfVars, sbVars, pwVars, urVars, dcVars, evVars, kyVars, lpVars, txVars, rqVars, mgVars, cnVars, rdVars, ciVars>>
    \/ (\E h \in 0..(MaxBuffers - 1) : LspSaveBuffer(h)) /\ UNCHANGED <<undoVars, rtVars, rbVars, rsVars, psVars, bpVars, bcVars, cvVars, wdVars, cmdVars, hsVars, dpVars, opVars, cfVars, sbVars, pwVars, urVars, dcVars, evVars, kyVars, lpVars, txVars, rqVars, mgVars, cnVars, rdVars, ciVars>>
    \/ (\E h \in 0..(MaxBuffers - 1) : LspCloseBuffer(h)) /\ UNCHANGED <<undoVars, rtVars, rbVars, rsVars, psVars, bpVars, bcVars, cvVars, wdVars, cmdVars, hsVars, dpVars, opVars, cfVars, sbVars, pwVars, urVars, dcVars, evVars, kyVars, lpVars, txVars, rqVars, mgVars, cnVars, rdVars, ciVars>>
    \/ (\E p \in Paths, ds \in DiagnosticLists : LspPublishDiagnostics(p, ds))
            /\ UNCHANGED <<undoVars, rtVars, rbVars, rsVars, psVars, bpVars, bcVars, cvVars, wdVars, cmdVars, hsVars, dpVars, opVars, cfVars, sbVars, pwVars, urVars, dcVars, evVars, kyVars, lpVars, txVars, rqVars, mgVars, cnVars, rdVars, ciVars>>
    \/ LspReplies(DiagnosticsCapabilities, FormattingEdits) /\ UNCHANGED <<undoVars, rtVars, rbVars, rsVars, psVars, bpVars, bcVars, cvVars, wdVars, cmdVars, hsVars, dpVars, opVars, cfVars, sbVars, pwVars, urVars, dcVars, evVars, kyVars, lpVars, txVars, rqVars, mgVars, cnVars, rdVars, ciVars>>

SpecLspDiagnostics == SpecLspInit /\ [][SpecLspDiagnosticsNext]_vars

\* formatting requests answered with lists of edits
SpecLspFormattingNext ==
    \/ (\E p \in Paths, t \in LspInitialTexts : LspOpenBuffer(p, t)) /\ UNCHANGED <<undoVars, rtVars, rbVars, rsVars, psVars, bpVars, bcVars, cvVars, wdVars, cmdVars, hsVars, dpVars, opVars, cfVars, sbVars, pwVars, urVars, dcVars, evVars, kyVars, lpVars, txVars, rqVars, mgVars, cnVars, rdVars, ciVars>>
    \/ (\E h \in 0..(MaxBuffers - 1) :
            client.next_request_id <= MaxFormattingRequests + 1 /\ LspFormatting(h))
            /\ UNCHANGED <<undoVars, rtVars, rbVars, rsVars, psVars, bpVars, bcVars, cvVars, wdVars, cmdVars, hsVars, dpVars, opVars, cfVars, sbVars, pwVars, urVars, dcVars, evVars, kyVars, lpVars, txVars, rqVars, mgVars, cnVars, rdVars, ciVars>>
    \/ (\E c \in FormattingCapabilities : LspInitializeReply(c)) /\ UNCHANGED <<undoVars, rtVars, rbVars, rsVars, psVars, bpVars, bcVars, cvVars, wdVars, cmdVars, hsVars, dpVars, opVars, cfVars, sbVars, pwVars, urVars, dcVars, evVars, kyVars, lpVars, txVars, rqVars, mgVars, cnVars, rdVars, ciVars>>
    \/ (\E edits \in FormattingEditLists : LspFormattingReply(edits)) /\ UNCHANGED <<undoVars, rtVars, rbVars, rsVars, psVars, bpVars, bcVars, cvVars, wdVars, cmdVars, hsVars, dpVars, opVars, cfVars, sbVars, pwVars, urVars, dcVars, evVars, kyVars, lpVars, txVars, rqVars, mgVars, cnVars, rdVars, ciVars>>

SpecLspFormatting == SpecLspInit /\ [][SpecLspFormattingNext]_vars

\* publishDiagnostics notifications, which the server sends once it has
\* answered `initialize`, among buffer load, save, save under a new path and
\* close events
SpecLspBindingNext ==
    \/ (\E p \in Paths, t \in {<<>>} : LspOpenBuffer(p, t)) /\ UNCHANGED <<undoVars, rtVars, rbVars, rsVars, psVars, bpVars, bcVars, cvVars, wdVars, cmdVars, hsVars, dpVars, opVars, cfVars, sbVars, pwVars, urVars, dcVars, evVars, kyVars, lpVars, txVars, rqVars, mgVars, cnVars, rdVars, ciVars>>
    \/ (\E h \in 0..(MaxBuffers - 1) : LspSaveBuffer(h)) /\ UNCHANGED <<undoVars, rtVars, rbVars, rsVars, psVars, bpVars, bcVars, cvVars, wdVars, cmdVars, hsVars, dpVars, opVars, cfVars, sbVars, pwVars, urVars, dcVars, evVars, kyVars, lpVars, txVars, rqVars, mgVars, cnVars, rdVars, ciVars>>
    \/ (\E h \in 0..(MaxBuffers - 1), p \in Paths : LspSaveBufferAs(h, p)) /\ UNCHANGED <<undoVars, rtVars, rbVars, rsVars, psVars, bpVars, bcVars, cvVars, wdVars, cmdVars, hsVars, dpVars, opVars, cfVars, sbVars, pwVars, urVars, dcVars, evVars, kyVars, lpVars, txVars, rqVars, mgVars, cnVars, rdVars, ciVars>>
    \/ (\E h \in 0..(MaxBuffers - 1) : LspCloseBuffer(h)) /\ UNCHANGED <<undoVars, rtVars, rbVars, rsVars, psVars, bpVars, bcVars, cvVars, wdVars, cmdVars, hsVars, dpVars, opVars, cfVars, sbVars, pwVars, urVars, dcVars, evVars, kyVars, lpVars, txVars, rqVars, mgVars, cnVars, rdVars, ciVars>>
    \/ (\E p \in Paths, ds \in DiagnosticLists :
            client.initialized /\ LspPublishDiagnostics(p, ds))
            /\ UNCHANGED <<undoVars, rtVars, rbVars, rsVars, psVars, bpVars, bcVars, cvVars, wdVars, cmdVars, hsVars, dpVars, opVars, cfVars, sbVars, pwVars, urVars, dcVars, evVars, kyVars, lpVars, txVars, rqVars, mgVars, cnVars, rdVars, ciVars>>
    \/ LspReplies(DiagnosticsCapabilities, FormattingEdits) /\ UNCHANGED <<undoVars, rtVars, rbVars, rsVars, psVars, bpVars, bcVars, cvVars, wdVars, cmdVars, hsVars, dpVars, opVars, cfVars, sbVars, pwVars, urVars, dcVars, evVars, kyVars, lpVars, txVars, rqVars, mgVars, cnVars, rdVars, ciVars>>

SpecLspBinding == SpecLspInit /\ [][SpecLspBindingNext]_vars

SpecReadBufInit == RbInit /\ UndoParked /\ RtParked /\ LspParked /\ RsParked /\ PsParked /\ BpParked /\ BcParked /\ CvParked /\ WdParked /\ CmdParked /\ HsParked /\ DpParked /\ OpParked /\ CfParked /\ SbParked /\ PwParked /\ UrParked /\ DcParked /\ EvParked /\ KyParked /\ LpParked /\ TxParked /\ RqParked /\ MgParked /\ CnParked /\ RdParked /\ CiParked

\* the frame reader: calls of read_content_from over a stream of frames
SpecReadBufNext ==
    \/ RbCall /\ UNCHANGED <<undoVars, rtVars, lspVars, rsVars, psVars, bpVars, bcVars, cvVars, wdVars, cmdVars, hsVars, dpVars, opVars, cfVars, sbVars, pwVars, urVars, dcVars, evVars, kyVars, lpVars, txVars, rqVars, mgVars, cnVars, rdVars, ciVars>>
    \/ RbReturn /\ UNCHANGED <<undoVars, rtVars, lspVars, rsVars, psVars, bpVars, bcVars, cvVars, wdVars, cmdVars, hsVars, dpVars, opVars, cfVars, sbVars, pwVars, urVars, dcVars, evVars, kyVars, lpVars, txVars, rqVars, mgVars, cnVars, rdVars, ciVars>>
    \/ RbCompact /\ UNCHANGED <<undoVars, rtVars, lspVars, rsVars, psVars, bpVars, bcVars, cvVars, wdVars, cmdVars, hsVars, dpVars, opVars, cfVars, sbVars, pwVars, urVars, dcVars, evVars, kyVars, lpVars, txVars, rqVars, mgVars, cnVars, rdVars, ciVars>>
    \/ (\E len \in 1..Len(rb_stream) : RbRead(len)) /\ UNCHANGED <<undoVars, rtVars, lspVars, rsVars, psVars, bpVars, bcVars, cvVars, wdVars, cmdVars, hsVars, dpVars, opVars, cfVars, sbVars, pwVars, urVars, dcVars, evVars, kyVars, lpVars, txVars, rqVars, mgVars, cnVars, rdVars, ciVars>>

SpecReadBuf == SpecReadBufInit /\ [][SpecReadBufNext]_vars

SpecResidualInit == RsInit /\ UndoParked /\ RtParked /\ LspParked /\ RbParked /\ PsParked /\ BpParked /\ BcParked /\ CvParked /\ WdParked /\ CmdParked /\ HsParked /\ DpParked /\ OpParked /\ CfParked /\ SbParked /\ PwParked /\ UrParked /\ DcParked /\ EvParked /\ KyParked /\ LpParked /\ TxParked /\ RqParked /\ MgParked /\ CnParked /\ RdParked /\ CiParked

SpecResidualNext ==
    \/ (\E n \in 1..Len(rs_stream) : RsReceive(n)) /\ UNCHANGED <<undoVars, rtVars, lspVars, rbVars, psVars, bpVars, bcVars, cvVars, wdVars, cmdVars, hsVars, dpVars, opVars, cfVars, sbVars, pwVars, urVars, dcVars, evVars, kyVars, lpVars, txVars, rqVars, mgVars, cnVars, rdVars, ciVars>>
    \/ RsFlush /\ UNCHANGED <<undoVars, rtVars, lspVars, rbVars, psVars, bpVars, bcVars, cvVars, wdVars, cmdVars, hsVars, dpVars, opVars, cfVars, sbVars, pwVars, urVars, dcVars, evVars, kyVars, lpVars, txVars, rqVars, mgVars, cnVars, rdVars, ciVars>>

SpecResidual == SpecResidualInit /\ [][SpecResidualNext]_vars

SpecSupervisorInit == PsInit /\ UndoParked /\ RtParked /\ LspParked /\ RbParked /\ RsParked /\ BpParked /\ BcParked /\ CvParked /\ WdParked /\ CmdParked /\ HsParked /\ DpParked /\ OpParked /\ CfParked /\ SbParked /\ PwParked /\ UrParked /\ DcParked /\ EvParked /\ KyParked /\ LpParked /\ TxParked /\ RqParked /\ MgParked /\ CnParked /\ RdParked /\ CiParked

SpecSupervisorNext ==
    \/ (\E spawned \in BOOLEAN : PsSpawnProcess(spawned))
            /\ UNCHANGED <<undoVars, rtVars, lspVars, rbVars, rsVars, bpVars, bcVars, cvVars, wdVars, cmdVars, hsVars, dpVars, opVars, cfVars, sbVars, pwVars, urVars, dcVars, evVars, kyVars, lpVars, txVars, rqVars, mgVars, cnVars, rdVars, ciVars>>
    \/ (\E h \in ProcessHandles, written \in Process_write_results : PsWriteToProcess(h, written))
            /\ UNCHANGED <<undoVars, rtVars, lspVars, rbVars, rsVars, bpVars, bcVars, cvVars, wdVars, cmdVars, hsVars, dpVars, opVars, cfVars, sbVars, pwVars, urVars, dcVars, evVars, kyVars, lpVars, txVars, rqVars, mgVars, cnVars, rdVars, ciVars>>
    \/ (\E h \in ProcessHandles : PsCloseProcessInput(h))
            /\ UNCHANGED <<undoVars, rtVars, lspVars, rbVars, rsVars, bpVars, bcVars, cvVars, wdVars, cmdVars, hsVars, dpVars, opVars, cfVars, sbVars, pwVars, urVars, dcVars, evVars, kyVars, lpVars, txVars, rqVars, mgVars, cnVars, rdVars, ciVars>>
    \/ (\E h \in ProcessHandles : PsKillProcess(h))
            /\ UNCHANGED <<undoVars, rtVars, lspVars, rbVars, rsVars, bpVars, bcVars, cvVars, wdVars, cmdVars, hsVars, dpVars, opVars, cfVars, sbVars, pwVars, urVars, dcVars, evVars, kyVars, lpVars, txVars, rqVars, mgVars, cnVars, rdVars, ciVars>>
    \/ (\E i \in ProcessHandles, result \in Process_read_results : PsProcessEvent(i, result))
            /\ UNCHANGED <<undoVars, rtVars, lspVars, rbVars, rsVars, bpVars, bcVars, cvVars, wdVars, cmdVars, hsVars, dpVars, opVars, cfVars, sbVars, pwVars, urVars, dcVars, evVars, kyVars, lpVars, txVars, rqVars, mgVars, cnVars, rdVars, ciVars>>

SpecSupervisor == SpecSupervisorInit /\ [][SpecSupervisorNext]_vars

SpecBufPoolInit ==
    BpInit /\ UndoParked /\ RtParked /\ LspParked /\ RbParked /\ RsParked /\ PsParked /\ BcParked /\ CvParked /\ WdParked /\ CmdParked /\ HsParked /\ DpParked /\ OpParked /\ CfParked /\ SbParked /\ PwParked /\ UrParked /\ DcParked /\ EvParked /\ KyParked /\ LpParked /\ TxParked /\ RqParked /\ MgParked /\ CnParked /\ RdParked /\ CiParked

SpecBufPoolNext ==
    \/ (\E read \in {"Ok", "Ok0", "Err"} : BpConnectionEvent(read))
            /\ UNCHANGED <<undoVars, rtVars, lspVars, rbVars, rsVars, psVars, bcVars, cvVars, wdVars, cmdVars, hsVars, dpVars, opVars, cfVars, sbVars, pwVars, urVars, dcVars, evVars, kyVars, lpVars, txVars, rqVars, mgVars, cnVars, rdVars, ciVars>>
    \/ (\E written \in BOOLEAN : BpWriteToClient(written))
            /\ UNCHANGED <<undoVars, rtVars, lspVars, rbVars, rsVars, psVars, bcVars, cvVars, wdVars, cmdVars, hsVars, dpVars, opVars, cfVars, sbVars, pwVars, urVars, dcVars, evVars, kyVars, lpVars, txVars, rqVars, mgVars, cnVars, rdVars, ciVars>>
    \/ BpApplicationRelease /\ UNCHANGED <<undoVars, rtVars, lspVars, rbVars, rsVars, psVars, bcVars, cvVars, wdVars, cmdVars, hsVars, dpVars, opVars, cfVars, sbVars, pwVars, urVars, dcVars, evVars, kyVars, lpVars, txVars, rqVars, mgVars, cnVars, rdVars, ciVars>>
    \/ BpApplicationRequest /\ UNCHANGED <<undoVars, rtVars, lspVars, rbVars, rsVars, psVars, bcVars, cvVars, wdVars, cmdVars, hsVars, dpVars, opVars, cfVars, sbVars, pwVars, urVars, dcVars, evVars, kyVars, lpVars, txVars, rqVars, mgVars, cnVars, rdVars, ciVars>>

SpecBufPool == SpecBufPoolInit /\ [][SpecBufPoolNext]_vars

SpecContentInit ==
    /\ BcInit /\ UndoParked /\ RtParked /\ LspParked /\ RbParked /\ RsParked /\ PsParked
    /\ BpParked /\ CvParked /\ WdParked /\ CmdParked /\ HsParked /\ DpParked /\ OpParked /\ CfParked /\ SbParked /\ PwParked /\ UrParked /\ DcParked /\ EvParked /\ KyParked /\ LpParked /\ TxParked /\ RqParked /\ MgParked /\ CnParked /\ RdParked /\ CiParked

SpecContentNext ==
    \/ (\E position \in PositionSet, text \in EditTexts : BcInsertText(position, text))
            /\ UNCHANGED <<undoVars, rtVars, lspVars, rbVars, rsVars, psVars, bpVars, cvVars, wdVars, cmdVars, hsVars, dpVars, opVars, cfVars, sbVars, pwVars, urVars, dcVars, evVars, kyVars, lpVars, txVars, rqVars, mgVars, cnVars, rdVars, ciVars>>
    \/ (\E range \in RangeSet : BcDeleteRange(range))
            /\ UNCHANGED <<undoVars, rtVars, lspVars, rbVars, rsVars, psVars, bpVars, cvVars, wdVars, cmdVars, hsVars, dpVars, opVars, cfVars, sbVars, pwVars, urVars, dcVars, evVars, kyVars, lpVars, txVars, rqVars, mgVars, cnVars, rdVars, ciVars>>

SpecContent == SpecContentInit /\ [][SpecContentNext]_vars

SpecViewsInit ==
    /\ CvInit /\ UndoParked /\ RtParked /\ LspParked /\ RbParked /\ RsParked /\ PsParked
    /\ BpParked /\ BcParked /\ WdParked /\ CmdParked /\ HsParked /\ DpParked /\ OpParked /\ CfParked /\ SbParked /\ PwParked /\ UrParked /\ DcParked /\ EvParked /\ KyParked /\ LpParked /\ TxParked /\ RqParked /\ MgParked /\ CnParked /\ RdParked /\ CiParked

SpecViewsNext ==
    \/ (\E c \in ClientIds : CvClientJoined(c))
            /\ UNCHANGED <<undoVars, rtVars, lspVars, rbVars, rsVars, psVars, bpVars, bcVars, wdVars, cmdVars, hsVars, dpVars, opVars, cfVars, sbVars, pwVars, urVars, dcVars, evVars, kyVars, lpVars, txVars, rqVars, mgVars, cnVars, rdVars, ciVars>>
    \/ (\E c \in ClientIds : CvKey(c))
            /\ UNCHANGED <<undoVars, rtVars, lspVars, rbVars, rsVars, psVars, bpVars, bcVars, wdVars, cmdVars, hsVars, dpVars, opVars, cfVars, sbVars, pwVars, urVars, dcVars, evVars, kyVars, lpVars, txVars, rqVars, mgVars, cnVars, rdVars, ciVars>>
    \/ (\E c \in ClientIds, p \in Paths : CvOpen(c, p))
            /\ UNCHANGED <<undoVars, rtVars, lspVars, rbVars, rsVars, psVars, bpVars, bcVars, wdVars, cmdVars, hsVars, dpVars, opVars, cfVars, sbVars, pwVars, urVars, dcVars, evVars, kyVars, lpVars, txVars, rqVars, mgVars, cnVars, rdVars, ciVars>>
    \/ (\E c \in ClientIds : CvClose(c))
            /\ UNCHANGED <<undoVars, rtVars, lspVars, rbVars, rsVars, psVars, bpVars, bcVars, wdVars, cmdVars, hsVars, dpVars, opVars, cfVars, sbVars, pwVars, urVars, dcVars, evVars, kyVars, lpVars, txVars, rqVars, mgVars, cnVars, rdVars, ciVars>>
    \/ CvRemoveBuffers
            /\ UNCHANGED <<undoVars, rtVars, lspVars, rbVars, rsVars, psVars, bpVars, bcVars, wdVars, cmdVars, hsVars, dpVars, opVars, cfVars, sbVars, pwVars, urVars, dcVars, evVars, kyVars, lpVars, txVars, rqVars, mgVars, cnVars, rdVars, ciVars>>

SpecViews == SpecViewsInit /\ [][SpecViewsNext]_vars

SpecWordsInit ==
    /\ WdInit /\ UndoParked /\ RtParked /\ LspParked /\ RbParked /\ RsParked /\ PsParked
    /\ BpParked /\ BcParked /\ CvParked /\ CmdParked /\ HsParked /\ DpParked /\ OpParked /\ CfParked /\ SbParked /\ PwParked /\ UrParked /\ DcParked /\ EvParked /\ KyParked /\ LpParked /\ TxParked /\ RqParked /\ MgParked /\ CnParked /\ RdParked /\ CiParked

SpecWordsNext ==
    \/ (\E position \in PositionSet, text \in WordTexts : WdInsertText(position, text))
            /\ UNCHANGED <<undoVars, rtVars, lspVars, rbVars, rsVars, psVars, bpVars, bcVars, cvVars, cmdVars, hsVars, dpVars, opVars, cfVars, sbVars, pwVars, urVars, dcVars, evVars, kyVars, lpVars, txVars, rqVars, mgVars, cnVars, rdVars, ciVars>>
    \/ (\E range \in RangeSet : WdDeleteRange(range))
            /\ UNCHANGED <<undoVars, rtVars, lspVars, rbVars, rsVars, psVars, bpVars, bcVars, cvVars, cmdVars, hsVars, dpVars, opVars, cfVars, sbVars, pwVars, urVars, dcVars, evVars, kyVars, lpVars, txVars, rqVars, mgVars, cnVars, rdVars, ciVars>>
    \/ WdUndo
            /\ UNCHANGED <<undoVars, rtVars, lspVars, rbVars, rsVars, psVars, bpVars, bcVars, cvVars, cmdVars, hsVars, dpVars, opVars, cfVars, sbVars, pwVars, urVars, dcVars, evVars, kyVars, lpVars, txVars, rqVars, mgVars, cnVars, rdVars, ciVars>>
    \/ WdRedo
            /\ UNCHANGED <<undoVars, rtVars, lspVars, rbVars, rsVars, psVars, bpVars, bcVars, cvVars, cmdVars, hsVars, dpVars, opVars, cfVars, sbVars, pwVars, urVars, dcVars, evVars, kyVars, lpVars, txVars, rqVars, mgVars, cnVars, rdVars, ciVars>>
    \/ WdRemoveBuffer
            /\ UNCHANGED <<undoVars, rtVars, lspVars, rbVars, rsVars, psVars, bpVars, bcVars, cvVars, cmdVars, hsVars, dpVars, opVars, cfVars, sbVars, pwVars, urVars, dcVars, evVars, kyVars, lpVars, txVars, rqVars, mgVars, cnVars, rdVars, ciVars>>

SpecWords == SpecWordsInit /\ [][SpecWordsNext]_vars

SpecCommandInit ==
    CmdInit /\ UndoParked /\ RtParked /\ LspParked /\ RbParked /\ RsParked /\ PsParked
    /\ BpParked /\ BcParked /\ CvParked /\ WdParked /\ HsParked /\ DpParked /\ OpParked /\ CfParked /\ SbParked /\ PwParked /\ UrParked /\ DcParked /\ EvParked /\ KyParked /\ LpParked /\ TxParked /\ RqParked /\ MgParked /\ CnParked /\ RdParked /\ CiParked

\* command texts and their parse
SpecCommandNext ==
    \/ CmdParse /\ UNCHANGED <<undoVars, rtVars, lspVars, rbVars, rsVars, psVars, bpVars, bcVars, cvVars, wdVars, hsVars, dpVars, opVars, cfVars, sbVars, pwVars, urVars, dcVars, evVars, kyVars, lpVars, txVars, rqVars, mgVars, cnVars, rdVars, ciVars>>

SpecCommand == SpecCommandInit /\ [][SpecCommandNext]_vars

\* command texts, their parse, the conversion of their flags and the display
\* of the errors
SpecCommandErrorsNext ==
    \/ CmdParse /\ UNCHANGED <<undoVars, rtVars, lspVars, rbVars, rsVars, psVars, bpVars, bcVars, cvVars, wdVars, hsVars, dpVars, opVars, cfVars, sbVars, pwVars, urVars, dcVars, evVars, kyVars, lpVars, txVars, rqVars, mgVars, cnVars, rdVars, ciVars>>
    \/ (\E static_offset \in StaticOffsets(cmd_text), checks \in BOOLEAN :
            CmdDisplayParseError(static_offset, checks)) /\ UNCHANGED <<undoVars, rtVars, lspVars, rbVars, rsVars, psVars, bpVars, bcVars, cvVars, wdVars, hsVars, dpVars, opVars, cfVars, sbVars, pwVars, urVars, dcVars, evVars, kyVars, lpVars, txVars, rqVars, mgVars, cnVars, rdVars, ciVars>>
    \/ (\E index \in 1..2, type_name \in {"bool", "usize"},
            static_offset \in StaticOffsets(cmd_text), checks \in BOOLEAN :
            CmdParseFlag(index, type_name, static_offset, checks)) /\ UNCHANGED <<undoVars, rtVars, lspVars, rbVars, rsVars, psVars, bpVars, bcVars, cvVars, wdVars, hsVars, dpVars, opVars, cfVars, sbVars, pwVars, urVars, dcVars, evVars, kyVars, lpVars, txVars, rqVars, mgVars, cnVars, rdVars, ciVars>>

SpecCommandErrors == SpecCommandInit /\ [][SpecCommandErrorsNext]_vars

SpecHistoryInit ==
    HsInit /\ UndoParked /\ RtParked /\ LspParked /\ RbParked /\ RsParked /\ PsParked
    /\ BpParked /\ BcParked /\ CvParked /\ WdParked /\ CmdParked /\ DpParked /\ OpParked /\ CfParked /\ SbParked /\ PwParked /\ UrParked /\ DcParked /\ EvParked /\ KyParked /\ LpParked /\ TxParked /\ RqParked /\ MgParked /\ CnParked /\ RdParked /\ CiParked

\* the history of commands
SpecHistoryNext ==
    \/ (\E entry \in HistoryEntries : HsAddToHistory(entry))
            /\ UNCHANGED <<undoVars, rtVars, lspVars, rbVars, rsVars, psVars, bpVars, bcVars, cvVars, wdVars, cmdVars, dpVars, opVars, cfVars, sbVars, pwVars, urVars, dcVars, evVars, kyVars, lpVars, txVars, rqVars, mgVars, cnVars, rdVars, ciVars>>

SpecHistory == SpecHistoryInit /\ [][SpecHistoryNext]_vars

SpecDelimiterInit ==
    DpInit /\ UndoParked /\ RtParked /\ LspParked /\ RbParked /\ RsParked /\ PsParked
    /\ BpParked /\ BcParked /\ CvParked /\ WdParked /\ CmdParked /\ HsParked /\ OpParked /\ CfParked /\ SbParked /\ PwParked /\ UrParked /\ DcParked /\ EvParked /\ KyParked /\ LpParked /\ TxParked /\ RqParked /\ MgParked /\ CnParked /\ RdParked /\ CiParked

\* calls of find_delimiter_pair_at
SpecDelimiterNext ==
    \/ DpFindDelimiterPairAt /\ UNCHANGED <<undoVars, rtVars, lspVars, rbVars, rsVars, psVars, bpVars, bcVars, cvVars, wdVars, cmdVars, hsVars, opVars, cfVars, sbVars, pwVars, urVars, dcVars, evVars, kyVars, lpVars, txVars, rqVars, mgVars, cnVars, rdVars, ciVars>>

SpecDelimiter == SpecDelimiterInit /\ [][SpecDelimiterNext]_vars

SpecOpenInit ==
    OpInit /\ UndoParked /\ RtParked /\ LspParked /\ RbParked /\ RsParked /\ PsParked
    /\ BpParked /\ BcParked /\ CvParked /\ WdParked /\ CmdParked /\ HsParked /\ DpParked /\ CfParked /\ SbParked /\ PwParked /\ UrParked /\ DcParked /\ EvParked /\ KyParked /\ LpParked /\ TxParked /\ RqParked /\ MgParked /\ CnParked /\ RdParked /\ CiParked

\* runs of the `open` command
SpecOpenNext ==
    \/ OpOpen /\ UNCHANGED <<undoVars, rtVars, lspVars, rbVars, rsVars, psVars, bpVars, bcVars, cvVars, wdVars, cmdVars, hsVars, dpVars, cfVars, sbVars, pwVars, urVars, dcVars, evVars, kyVars, lpVars, txVars, rqVars, mgVars, cnVars, rdVars, ciVars>>

SpecOpen == SpecOpenInit /\ [][SpecOpenNext]_vars

SpecConfigInit ==
    CfInit /\ UndoParked /\ RtParked /\ LspParked /\ RbParked /\ RsParked /\ PsParked
    /\ BpParked /\ BcParked /\ CvParked /\ WdParked /\ CmdParked /\ HsParked /\ DpParked
    /\ OpParked /\ SbParked /\ PwParked /\ UrParked /\ DcParked /\ EvParked /\ KyParked /\ LpParked /\ TxParked /\ RqParked /\ MgParked /\ CnParked /\ RdParked /\ CiParked

\* runs of load_config
SpecConfigNext ==
    \/ CfLoadConfig /\ UNCHANGED <<undoVars, rtVars, lspVars, rbVars, rsVars, psVars, bpVars, bcVars, cvVars, wdVars, cmdVars, hsVars, dpVars, opVars, sbVars, pwVars, urVars, dcVars, evVars, kyVars, lpVars, txVars, rqVars, mgVars, cnVars, rdVars, ciVars>>

SpecConfig == SpecConfigInit /\ [][SpecConfigNext]_vars

SpecSearchInit ==
    SbInit /\ UndoParked /\ RtParked /\ LspParked /\ RbParked /\ RsParked /\ PsParked
    /\ BpParked /\ BcParked /\ CvParked /\ WdParked /\ CmdParked /\ HsParked /\ DpParked
    /\ OpParked /\ CfParked /\ PwParked /\ UrParked /\ DcParked /\ EvParked /\ KyParked /\ LpParked /\ TxParked /\ RqParked /\ MgParked /\ CnParked /\ RdParked /\ CiParked

\* a buffer is searched and edited
SpecSearchNext ==
    \/ (\E text \in SearchTexts : SbSetSearch(text)) /\ UNCHANGED <<undoVars, rtVars, lspVars, rbVars, rsVars, psVars, bpVars, bcVars, cvVars, wdVars, cmdVars, hsVars, dpVars, opVars, cfVars, pwVars, urVars, dcVars, evVars, kyVars, lpVars, txVars, rqVars, mgVars, cnVars, rdVars, ciVars>>
    \/ (\E position \in PositionSet, text \in WordTexts \cup {<<>>} :
            SbInsertText(position, text)) /\ UNCHANGED <<undoVars, rtVars, lspVars, rbVars, rsVars, psVars, bpVars, bcVars, cvVars, wdVars, cmdVars, hsVars, dpVars, opVars, cfVars, pwVars, urVars, dcVars, evVars, kyVars, lpVars, txVars, rqVars, mgVars, cnVars, rdVars, ciVars>>
    \/ (\E range \in RangeSet : SbDeleteRange(range)) /\ UNCHANGED <<undoVars, rtVars, lspVars, rbVars, rsVars, psVars, bpVars, bcVars, cvVars, wdVars, cmdVars, hsVars, dpVars, opVars, cfVars, pwVars, urVars, dcVars, evVars, kyVars, lpVars, txVars, rqVars, mgVars, cnVars, rdVars, ciVars>>

SpecSearch == SpecSearchInit /\ [][SpecSearchNext]_vars

SpecProtocolInit ==
    PwInit /\ UndoParked /\ RtParked /\ LspParked /\ RbParked /\ RsParked /\ PsParked
    /\ BpParked /\ BcParked /\ CvParked /\ WdParked /\ CmdParked /\ HsParked /\ DpParked
    /\ OpParked /\ CfParked /\ SbParked /\ UrParked /\ DcParked /\ EvParked /\ KyParked /\ LpParked /\ TxParked /\ RqParked /\ MgParked /\ CnParked /\ RdParked /\ CiParked

\* the client writes requests, notifications and responses
SpecProtocolNext ==
    \/ (\E method \in WrittenMethods, params \in WrittenParams :
            PwRequest(method, params)) /\ UNCHANGED <<undoVars, rtVars, lspVars, rbVars, rsVars, psVars, bpVars, bcVars, cvVars, wdVars, cmdVars, hsVars, dpVars, opVars, cfVars, sbVars, urVars, dcVars, evVars, kyVars, lpVars, txVars, rqVars, mgVars, cnVars, rdVars, ciVars>>
    \/ (\E method \in WrittenMethods, params \in WrittenParams :
            PwNotify(method, params)) /\ UNCHANGED <<undoVars, rtVars, lspVars, rbVars, rsVars, psVars, bpVars, bcVars, cvVars, wdVars, cmdVars, hsVars, dpVars, opVars, cfVars, sbVars, urVars, dcVars, evVars, kyVars, lpVars, txVars, rqVars, mgVars, cnVars, rdVars, ciVars>>
    \/ (\E request_id \in ServerRequestIds, result \in WrittenResults :
            PwRespond(request_id, result)) /\ UNCHANGED <<undoVars, rtVars, lspVars, rbVars, rsVars, psVars, bpVars, bcVars, cvVars, wdVars, cmdVars, hsVars, dpVars, opVars, cfVars, sbVars, urVars, dcVars, evVars, kyVars, lpVars, txVars, rqVars, mgVars, cnVars, rdVars, ciVars>>

SpecProtocol == SpecProtocolInit /\ [][SpecProtocolNext]_vars

SpecUndoRedoInit ==
    UrInit /\ UndoParked /\ RtParked /\ LspParked /\ RbParked /\ RsParked /\ PsParked
    /\ BpParked /\ BcParked /\ CvParked /\ WdParked /\ CmdParked /\ HsParked /\ DpParked
    /\ OpParked /\ CfParked /\ SbParked /\ PwParked /\ DcParked /\ EvParked /\ KyParked /\ LpParked /\ TxParked /\ RqParked /\ MgParked /\ CnParked /\ RdParked /\ CiParked

\* edits are pushed and committed, then undo and redo are called
SpecUndoRedoNext ==
    \/ (\E edit \in PushedEdits : UrPushEdit(edit)) /\ UNCHANGED <<undoVars, rtVars, lspVars, rbVars, rsVars, psVars, bpVars, bcVars, cvVars, wdVars, cmdVars, hsVars, dpVars, opVars, cfVars, sbVars, pwVars, dcVars, evVars, kyVars, lpVars, txVars, rqVars, mgVars, cnVars, rdVars, ciVars>>
    \/ UrCommitEdits /\ UNCHANGED <<undoVars, rtVars, lspVars, rbVars, rsVars, psVars, bpVars, bcVars, cvVars, wdVars, cmdVars, hsVars, dpVars, opVars, cfVars, sbVars, pwVars, dcVars, evVars, kyVars, lpVars, txVars, rqVars, mgVars, cnVars, rdVars, ciVars>>
    \/ UrUndo /\ UNCHANGED <<undoVars, rtVars, lspVars, rbVars, rsVars, psVars, bpVars, bcVars, cvVars, wdVars, cmdVars, hsVars, dpVars, opVars, cfVars, sbVars, pwVars, dcVars, evVars, kyVars, lpVars, txVars, rqVars, mgVars, cnVars, rdVars, ciVars>>
    \/ UrRedo /\ UNCHANGED <<undoVars, rtVars, lspVars, rbVars, rsVars, psVars, bpVars, bcVars, cvVars, wdVars, cmdVars, hsVars, dpVars, opVars, cfVars, sbVars, pwVars, dcVars, evVars, kyVars, lpVars, txVars, rqVars, mgVars, cnVars, rdVars, ciVars>>

SpecUndoRedo == SpecUndoRedoInit /\ [][SpecUndoRedoNext]_vars

SpecDidChangeInit ==
    DcInit /\ UndoParked /\ RtParked /\ LspParked /\ RbParked /\ RsParked /\ PsParked
    /\ BpParked /\ BcParked /\ CvParked /\ WdParked /\ CmdParked /\ HsParked /\ DpParked
    /\ OpParked /\ CfParked /\ SbParked /\ PwParked /\ UrParked /\ EvParked /\ KyParked /\ LpParked /\ TxParked /\ RqParked /\ MgParked /\ CnParked /\ RdParked /\ CiParked

\* a buffer is edited and the pending edits are sent
SpecDidChangeNext ==
    \/ (\E position \in PositionSet, text \in LspEditTexts : DcInsertText(position, text))
            /\ UNCHANGED <<undoVars, rtVars, lspVars, rbVars, rsVars, psVars, bpVars, bcVars, cvVars, wdVars, cmdVars, hsVars, dpVars, opVars, cfVars, sbVars, pwVars, urVars, evVars, kyVars, lpVars, txVars, rqVars, mgVars, cnVars, rdVars, ciVars>>
    \/ DcSendPendingDidChange /\ UNCHANGED <<undoVars, rtVars, lspVars, rbVars, rsVars, psVars, bpVars, bcVars, cvVars, wdVars, cmdVars, hsVars, dpVars, opVars, cfVars, sbVars, pwVars, urVars, evVars, kyVars, lpVars, txVars, rqVars, mgVars, cnVars, rdVars, ciVars>>

SpecDidChange == SpecDidChangeInit /\ [][SpecDidChangeNext]_vars

SpecEventsInit ==
    EvInit /\ UndoParked /\ RtParked /\ LspParked /\ RbParked /\ RsParked /\ PsParked
    /\ BpParked /\ BcParked /\ CvParked /\ WdParked /\ CmdParked /\ HsParked /\ DpParked
    /\ OpParked /\ CfParked /\ SbParked /\ PwParked /\ UrParked /\ DcParked /\ KyParked /\ LpParked /\ TxParked /\ RqParked /\ MgParked /\ CnParked /\ RdParked /\ CiParked

\* the server waits for events and handles them
SpecEventsNext ==
    \/ (\E batch \in EpollBatches : EvWait(batch)) /\ UNCHANGED <<undoVars, rtVars, lspVars, rbVars, rsVars, psVars, bpVars, bcVars, cvVars, wdVars, cmdVars, hsVars, dpVars, opVars, cfVars, sbVars, pwVars, urVars, dcVars, kyVars, lpVars, txVars, rqVars, mgVars, cnVars, rdVars, ciVars>>
    \/ EvTimeout /\ UNCHANGED <<undoVars, rtVars, lspVars, rbVars, rsVars, psVars, bpVars, bcVars, cvVars, wdVars, cmdVars, hsVars, dpVars, opVars, cfVars, sbVars, pwVars, urVars, dcVars, kyVars, lpVars, txVars, rqVars, mgVars, cnVars, rdVars, ciVars>>
    \/ EvHandle /\ UNCHANGED <<undoVars, rtVars, lspVars, rbVars, rsVars, psVars, bpVars, bcVars, cvVars, wdVars, cmdVars, hsVars, dpVars, opVars, cfVars, sbVars, pwVars, urVars, dcVars, kyVars, lpVars, txVars, rqVars, mgVars, cnVars, rdVars, ciVars>>

SpecEvents == SpecEventsInit /\ [][SpecEventsNext]_vars

\* the loop runs on: a batch is handled to its end and a wait with a timeout
\* returns when the timeout is over
SpecEventsLive ==
    SpecEventsInit /\ [][SpecEventsNext]_vars /\ WF_evVars(EvHandle) /\ WF_evVars(EvTimeout)

SpecKeysInit ==
    KyInit /\ UndoParked /\ RtParked /\ LspParked /\ RbParked /\ RsParked /\ PsParked
    /\ BpParked /\ BcParked /\ CvParked /\ WdParked /\ CmdParked /\ HsParked /\ DpParked
    /\ OpParked /\ CfParked /\ SbParked /\ PwParked /\ UrParked /\ DcParked /\ EvParked /\ LpParked /\ TxParked /\ RqParked /\ MgParked /\ CnParked /\ RdParked /\ CiParked

\* clients send keys
SpecKeysNext ==
    \/ (\E target_client \in KeyClients, key \in Keys, matched \in MatchResults :
            KyKey(target_client, key, matched)) /\ UNCHANGED <<undoVars, rtVars, lspVars, rbVars, rsVars, psVars, bpVars, bcVars, cvVars, wdVars, cmdVars, hsVars, dpVars, opVars, cfVars, sbVars, pwVars, urVars, dcVars, evVars, lpVars, txVars, rqVars, mgVars, cnVars, rdVars, ciVars>>

SpecKeys == SpecKeysInit /\ [][SpecKeysNext]_vars

SpecLinePoolInit ==
    LpInit /\ UndoParked /\ RtParked /\ LspParked /\ RbParked /\ RsParked /\ PsParked
    /\ BpParked /\ BcParked /\ CvParked /\ WdParked /\ CmdParked /\ HsParked /\ DpParked
    /\ OpParked /\ CfParked /\ SbParked /\ PwParked /\ UrParked /\ DcParked /\ EvParked
    /\ KyParked /\ TxParked /\ RqParked /\ MgParked /\ CnParked /\ RdParked /\ CiParked

\* a content is edited with its line pool
SpecLinePoolNext ==
    \/ (\E position \in PositionSet, text \in PoolEditTexts : LpInsertText(position, text))
            /\ UNCHANGED <<undoVars, rtVars, lspVars, rbVars, rsVars, psVars, bpVars, bcVars, cvVars, wdVars, cmdVars, hsVars, dpVars, opVars, cfVars, sbVars, pwVars, urVars, dcVars, evVars, kyVars, txVars, rqVars, mgVars, cnVars, rdVars, ciVars>>
    \/ (\E range \in RangeSet : LpDeleteRange(range)) /\ UNCHANGED <<undoVars, rtVars, lspVars, rbVars, rsVars, psVars, bpVars, bcVars, cvVars, wdVars, cmdVars, hsVars, dpVars, opVars, cfVars, sbVars, pwVars, urVars, dcVars, evVars, kyVars, txVars, rqVars, mgVars, cnVars, rdVars, ciVars>>

SpecLinePool == SpecLinePoolInit /\ [][SpecLinePoolNext]_vars

SpecTextInit ==
    TxInit /\ UndoParked /\ RtParked /\ LspParked /\ RbParked /\ RsParked /\ PsParked
    /\ BpParked /\ BcParked /\ CvParked /\ WdParked /\ CmdParked /\ HsParked /\ DpParked
    /\ OpParked /\ CfParked /\ SbParked /\ PwParked /\ UrParked /\ DcParked /\ EvParked
    /\ KyParked /\ LpParked /\ RqParked /\ MgParked /\ CnParked /\ RdParked /\ CiParked

\* a string is pushed to a text
SpecTextNext ==
    \/ TxPushStr /\ UNCHANGED <<undoVars, rtVars, lspVars, rbVars, rsVars, psVars, bpVars, bcVars, cvVars, wdVars, cmdVars, hsVars, dpVars, opVars, cfVars, sbVars, pwVars, urVars, dcVars, evVars, kyVars, lpVars, rqVars, mgVars, cnVars, rdVars, ciVars>>

SpecText == SpecTextInit /\ [][SpecTextNext]_vars


SpecServerRequestsInit ==
    RqInit /\ UndoParked /\ RtParked /\ LspParked /\ RbParked /\ RsParked /\ PsParked
    /\ BpParked /\ BcParked /\ CvParked /\ WdParked /\ CmdParked /\ HsParked /\ DpParked
    /\ OpParked /\ CfParked /\ SbParked /\ PwParked /\ UrParked /\ DcParked /\ EvParked
    /\ KyParked /\ LpParked /\ TxParked /\ MgParked /\ CnParked /\ RdParked /\ CiParked

\* the server sends requests to the client
SpecServerRequestsNext ==
    \/ (\E request \in ServerRequests : RqOnRequest(request)) /\ UNCHANGED <<undoVars, rtVars, lspVars, rbVars, rsVars, psVars, bpVars, bcVars, cvVars, wdVars, cmdVars, hsVars, dpVars, opVars, cfVars, sbVars, pwVars, urVars, dcVars, evVars, kyVars, lpVars, txVars, mgVars, cnVars, rdVars, ciVars>>

SpecServerRequests == SpecServerRequestsInit /\ [][SpecServerRequestsNext]_vars


SpecClientManagerInit ==
    MgInit /\ UndoParked /\ RtParked /\ LspParked /\ RbParked /\ RsParked /\ PsParked
    /\ BpParked /\ BcParked /\ CvParked /\ WdParked /\ CmdParked /\ HsParked /\ DpParked
    /\ OpParked /\ CfParked /\ SbParked /\ PwParked /\ UrParked /\ DcParked /\ EvParked
    /\ KyParked /\ LpParked /\ TxParked /\ RqParked /\ CnParked /\ RdParked /\ CiParked

\* clients are started and stopped while their processes report
SpecClientManagerNext ==
    \/ (\E by_recipe \in BOOLEAN : MgStart(by_recipe)) /\ UNCHANGED <<undoVars, rtVars, lspVars, rbVars, rsVars, psVars, bpVars, bcVars, cvVars, wdVars, cmdVars, hsVars, dpVars, opVars, cfVars, sbVars, pwVars, urVars, dcVars, evVars, kyVars, lpVars, txVars, rqVars, cnVars, rdVars, ciVars>>
    \/ (\E handle \in 0..(MaxStarts - 1) : MgStop(handle)) /\ UNCHANGED <<undoVars, rtVars, lspVars, rbVars, rsVars, psVars, bpVars, bcVars, cvVars, wdVars, cmdVars, hsVars, dpVars, opVars, cfVars, sbVars, pwVars, urVars, dcVars, evVars, kyVars, lpVars, txVars, rqVars, cnVars, rdVars, ciVars>>
    \/ (\E process \in mg_processes : MgProcessSpawned(process)) /\ UNCHANGED <<undoVars, rtVars, lspVars, rbVars, rsVars, psVars, bpVars, bcVars, cvVars, wdVars, cmdVars, hsVars, dpVars, opVars, cfVars, sbVars, pwVars, urVars, dcVars, evVars, kyVars, lpVars, txVars, rqVars, cnVars, rdVars, ciVars>>
    \/ (\E process \in mg_processes, output \in OutputEvents :
            MgProcessOutput(process, output)) /\ UNCHANGED <<undoVars, rtVars, lspVars, rbVars, rsVars, psVars, bpVars, bcVars, cvVars, wdVars, cmdVars, hsVars, dpVars, opVars, cfVars, sbVars, pwVars, urVars, dcVars, evVars, kyVars, lpVars, txVars, rqVars, cnVars, rdVars, ciVars>>
    \/ (\E process \in mg_processes : MgProcessExit(process)) /\ UNCHANGED <<undoVars, rtVars, lspVars, rbVars, rsVars, psVars, bpVars, bcVars, cvVars, wdVars, cmdVars, hsVars, dpVars, opVars, cfVars, sbVars, pwVars, urVars, dcVars, evVars, kyVars, lpVars, txVars, rqVars, cnVars, rdVars, ciVars>>

SpecClientManager == SpecClientManagerInit /\ [][SpecClientManagerNext]_vars


SpecConnectionsInit ==
    CnInit /\ UndoParked /\ RtParked /\ LspParked /\ RbParked /\ RsParked /\ PsParked
    /\ BpParked /\ BcParked /\ CvParked /\ WdParked /\ CmdParked /\ HsParked /\ DpParked
    /\ OpParked /\ CfParked /\ SbParked /\ PwParked /\ UrParked /\ DcParked /\ EvParked
    /\ KyParked /\ LpParked /\ TxParked /\ RqParked /\ MgParked /\ RdParked /\ CiParked

\* connections are accepted, written to and closed
SpecConnectionsNext ==
    \/ (\E request \in PlatformRequests : CnEnqueue(request)) /\ UNCHANGED <<undoVars, rtVars, lspVars, rbVars, rsVars, psVars, bpVars, bcVars, cvVars, wdVars, cmdVars, hsVars, dpVars, opVars, cfVars, sbVars, pwVars, urVars, dcVars, evVars, kyVars, lpVars, txVars, rqVars, mgVars, rdVars, ciVars>>
    \/ (\E write_ok \in [1..Len(cn_requests) -> BOOLEAN] : CnRequests(write_ok))
            /\ UNCHANGED <<undoVars, rtVars, lspVars, rbVars, rsVars, psVars, bpVars, bcVars, cvVars, wdVars, cmdVars, hsVars, dpVars, opVars, cfVars, sbVars, pwVars, urVars, dcVars, evVars, kyVars, lpVars, txVars, rqVars, mgVars, rdVars, ciVars>>
    \/ CnAccept /\ UNCHANGED <<undoVars, rtVars, lspVars, rbVars, rsVars, psVars, bpVars, bcVars, cvVars, wdVars, cmdVars, hsVars, dpVars, opVars, cfVars, sbVars, pwVars, urVars, dcVars, evVars, kyVars, lpVars, txVars, rqVars, mgVars, rdVars, ciVars>>
    \/ (\E event_index \in CLIENTS_START_INDEX..CLIENTS_LAST_INDEX :
            CnReadClosed(event_index)) /\ UNCHANGED <<undoVars, rtVars, lspVars, rbVars, rsVars, psVars, bpVars, bcVars, cvVars, wdVars, cmdVars, hsVars, dpVars, opVars, cfVars, sbVars, pwVars, urVars, dcVars, evVars, kyVars, lpVars, txVars, rqVars, mgVars, rdVars, ciVars>>

SpecConnections == SpecConnectionsInit /\ [][SpecConnectionsNext]_vars


SpecReaderThreadInit ==
    RdInit /\ UndoParked /\ RtParked /\ LspParked /\ RsParked /\ PsParked
    /\ BpParked /\ BcParked /\ CvParked /\ WdParked /\ CmdParked /\ HsParked /\ DpParked
    /\ OpParked /\ CfParked /\ SbParked /\ PwParked /\ UrParked /\ DcParked /\ EvParked
    /\ KyParked /\ LpParked /\ TxParked /\ RqParked /\ MgParked /\ CnParked /\ CiParked

\* the reader thread runs over a stream of frames that ends
SpecReaderThreadNext ==
    \/ RdCall /\ UNCHANGED <<undoVars, rtVars, lspVars, rsVars, psVars, bpVars, bcVars, cvVars, wdVars, cmdVars, hsVars, dpVars, opVars, cfVars, sbVars, pwVars, urVars, dcVars, evVars, kyVars, lpVars, txVars, rqVars, mgVars, cnVars, ciVars>>
    \/ RdReturn /\ UNCHANGED <<undoVars, rtVars, lspVars, rsVars, psVars, bpVars, bcVars, cvVars, wdVars, cmdVars, hsVars, dpVars, opVars, cfVars, sbVars, pwVars, urVars, dcVars, evVars, kyVars, lpVars, txVars, rqVars, mgVars, cnVars, ciVars>>
    \/ RdCompact /\ UNCHANGED <<undoVars, rtVars, lspVars, rsVars, psVars, bpVars, bcVars, cvVars, wdVars, cmdVars, hsVars, dpVars, opVars, cfVars, sbVars, pwVars, urVars, dcVars, evVars, kyVars, lpVars, txVars, rqVars, mgVars, cnVars, ciVars>>
    \/ (\E len \in 1..Len(rb_stream) : RdRead(len)) /\ UNCHANGED <<undoVars, rtVars, lspVars, rsVars, psVars, bpVars, bcVars, cvVars, wdVars, cmdVars, hsVars, dpVars, opVars, cfVars, sbVars, pwVars, urVars, dcVars, evVars, kyVars, lpVars, txVars, rqVars, mgVars, cnVars, ciVars>>
    \/ RdReadZero /\ UNCHANGED <<undoVars, rtVars, lspVars, rsVars, psVars, bpVars, bcVars, cvVars, wdVars, cmdVars, hsVars, dpVars, opVars, cfVars, sbVars, pwVars, urVars, dcVars, evVars, kyVars, lpVars, txVars, rqVars, mgVars, cnVars, ciVars>>
    \/ RdReadErr /\ UNCHANGED <<undoVars, rtVars, lspVars, rsVars, psVars, bpVars, bcVars, cvVars, wdVars, cmdVars, hsVars, dpVars, opVars, cfVars, sbVars, pwVars, urVars, dcVars, evVars, kyVars, lpVars, txVars, rqVars, mgVars, cnVars, ciVars>>

\* the thread is scheduled: every step of it that stays possible is taken;
\* a read is not bound to fail
SpecReaderThread ==
    /\ SpecReaderThreadInit
    /\ [][SpecReaderThreadNext]_vars
    /\ WF_rdThreadVars(RdCall)
    /\ WF_rdThreadVars(RdReturn)
    /\ WF_rdThreadVars(RdCompact)
    /\ WF_rdThreadVars(\E len \in 1..Len(rb_stream) : RdRead(len))
    /\ WF_rdThreadVars(RdReadZero)


SpecCommandIterInit ==
    CiInit /\ UndoParked /\ RtParked /\ LspParked /\ RbParked /\ RsParked /\ PsParked
    /\ BpParked /\ BcParked /\ CvParked /\ WdParked /\ CmdParked /\ HsParked /\ DpParked
    /\ OpParked /\ CfParked /\ SbParked /\ PwParked /\ UrParked /\ DcParked /\ EvParked
    /\ KyParked /\ LpParked /\ TxParked /\ RqParked /\ MgParked /\ CnParked /\ RdParked

\* the commands of an input are iterated
SpecCommandIterNext ==
    \/ CiNext /\ UNCHANGED <<undoVars, rtVars, lspVars, rbVars, rsVars, psVars, bpVars, bcVars, cvVars, wdVars, cmdVars, hsVars, dpVars, opVars, cfVars, sbVars, pwVars, urVars, dcVars, evVars, kyVars, lpVars, txVars, rqVars, mgVars, cnVars, rdVars>>

SpecCommandIter == SpecCommandIterInit /\ [][SpecCommandIterNext]_vars

C2_DeleteOfInsertedRangeRestores ==
    rt_phase = "deleted" => (~rt_panicked /\ rt_lines = rt_initial)

\* C3: when the reply to a request the client sent arrives (a result, a null
\* result or an error), the pending-request table holds exactly one entry for
\* its id before the dispatch and none after it.
C3_ReplyTakesPendingEntry ==
    last_reply.id # 0 => (last_reply.before = 1 /\ last_reply.after = 0)

\* C4: once the pending edits of a buffer have been flushed to a server that
\* asked for incremental changes, the text the server holds, with the change
\* events applied in the order sent, is the buffer's text.
C4_FlushedChangesReproduceText ==
    \A h \in 0..(Len(editor_buffers) - 1) :
        (/\ BufferCollection_has(editor_buffers, h)
         /\ client.initialized
         /\ client.server_capabilities.change = "Incremental"
         /\ h < Len(client.versioned_buffers)
         /\ client.versioned_buffers[h + 1].pending_edits = <<>>
         /\ server_docs[editor_buffers[h + 1].path].open
         /\ Len(server_docs[editor_buffers[h + 1].path].versions) >= 2)
        => server_docs[editor_buffers[h + 1].path].text
              = buffer_to_string(editor_buffers[h + 1].content)

\* C5: the versions a server received for a document start at 0 with didOpen
\* and every later didChange carries the previous version plus one.
C5_VersionsStrictlyIncrease ==
    \A p \in Paths :
        server_docs[p].open =>
            /\ server_docs[p].versions[1] = 0
            /\ \A i \in 1..(Len(server_docs[p].versions) - 1) :
                  server_docs[p].versions[i + 1] = server_docs[p].versions[i] + 1

\* C6: after a publishDiagnostics for a path is handled, the diagnostics
\* visible for the path are exactly the published entries, ordered by range.
C6_PublishReplacesDiagnostics ==
    last_publish.path # "" =>
        diagnostics_of_path(client.diagnostics, last_publish.path)
            = sort_by_key_from(last_publish.diagnostics)

\* C9: the result of a formatting request is applied to no buffer other than
\* the one the request originated from; once that buffer is closed, to none.
C9_ClosedBufferResponseDiscarded ==
    \A a \in formatting_applied : a.origin = a.target

\* C7: the contents successive read_content_from calls return are the bodies
\* of the frames of the stream, in order, each exactly; and a call waits for
\* more input only when every frame of the stream has been returned.
C7_FramesReturnedInOrder ==
    /\ Len(rb_returned) <= Len(rb_frames)
    /\ \A i \in 1..Len(rb_returned) : rb_returned[i] = rb_frames[i]
    /\ (rb_pc = "loop" /\ rb_stream = <<>> /\ ~ReadBuf_complete(ReadBuf_find_header(rb))
           /\ ~(rb.read_index > Len(rb.buf) \div 2))
        => Len(rb_returned) = Len(rb_frames)

\* C7 witness: every frame of a stream of MaxFrames frames was returned, and
\* the buffer was compacted and grown on the way.
C7_Witness ==
    /\ Len(rb_frames) = MaxFrames /\ rb_returned = rb_frames
    /\ rb_compacted /\ rb_grew

\* C8: streaming the bytes of a valid UTF-8 string through receive_bytes in
\* consecutive chunks, however they are cut, and concatenating the returned
\* pieces in order yields the original string.
C8_ChunksYieldOriginal ==
    (rs_stream = <<>> /\ rs_flushed) => rs_out = rs_message

\* the positions of the ProcessExit events of a tag
exit_events(tag) ==
    {i \in DOMAIN events : events[i].kind = "ProcessExit" /\ events[i].tag = tag}

\* C10: a spawned process gets one ProcessExit event and no more, and once
\* it is sent the process holds no slot and no later event carries its tag.
C10_OneExitFreesSlot ==
    \A tag \in 1..spawn_count :
        /\ Cardinality(exit_events(tag)) <= 1
        /\ \A e \in exit_events(tag) :
              /\ \A i \in ProcessHandles : ~(processes[i].some /\ processes[i].tag = tag)
              /\ \A j \in DOMAIN events : j > e => events[j].tag # tag

\* the positions of the events that answer the SpawnProcess request of a
\* tag: its ProcessSpawned, or the ProcessExit of a spawn that failed
spawn_answers(tag) ==
    {i \in DOMAIN events :
        /\ events[i].tag = tag
        /\ \/ events[i].kind = "ProcessSpawned"
           \/ /\ events[i].kind = "ProcessExit"
              /\ \A j \in DOMAIN events :
                    ~(events[j].tag = tag /\ events[j].kind = "ProcessSpawned")}

\* C11: every SpawnProcess request is answered by exactly one event for its
\* tag, ProcessSpawned or the ProcessExit of a failed spawn, also when all
\* slots of the process table are occupied.
C11_SpawnAnswered ==
    \A tag \in 1..spawn_count : Cardinality(spawn_answers(tag)) = 1

\* C12: in the server loop no pooled buffer is dropped outside the pool:
\* each acquired buffer is released to the pool or handed on in an event or
\* a request, also when a connection read returns 0 bytes or an error and
\* after a write request is served.
C12_NoBufDroppedOutsidePool == dropped_bufs = {}

\* C13: Buffer::insert_text and Buffer::delete_range given a position whose
\* line is at or beyond the line count, or whose column is beyond the line,
\* never fail and leave the content they leave for the nearest valid position.
C13_OutOfRangeClamped ==
    [][/\ \A position \in PositionSet, text \in EditTexts :
             UndoInsertText(position, text) =>
                 /\ ~buffer'.panicked
                 /\ buffer'.content =
                       Buffer_insert_text(buffer, clamp_position(buffer.content, position),
                                          text).content
       /\ \A range \in RangeSet :
             UndoDeleteRange(range) =>
                 /\ ~buffer'.panicked
                 /\ buffer'.content =
                       Buffer_delete_range(buffer, clamped_range(buffer.content, range),
                                           overflow_checks).content]_vars

\* C14: every BufferContent, as constructed by empty() or from_str and after
\* any insert_text and delete_range calls, has at least one line.
C14_AtLeastOneLine == Len(bc_lines) >= 1

\* C15: after any open, close, buffer removal and client join, the view
\* handle of every client, when present, refers to a view that exists and
\* whose buffer exists.
C15_ViewHandlesLive ==
    \A c \in ClientIds :
        cv_current[c] # -1 =>
            /\ BufferViewCollection_has(cv_views, cv_current[c])
            /\ BufferCollection_has(cv_buffers, cv_views[cv_current[c] + 1].buffer_handle)

\* the identifiers of the lines of the live buffers
live_words == IF wd_live THEN lines_words(wd_lines, 1, Len(wd_lines)) ELSE <<>>

\* C16: after any insert_text, delete_range, undo, redo and buffer removal
\* the word database's count of every identifier is the number of its
\* occurrences in the lines of the live buffers.
C16_WordCountsMatchContent ==
    \A word \in {live_words[i] : i \in DOMAIN live_words}
                \cup {word_database[i].word : i \in DOMAIN word_database} :
        word_count(word_database, word) =
            Cardinality({i \in DOMAIN live_words : live_words[i] = word})


\* C17: after publishDiagnostics notifications and buffer load, save, save
\* under a new path and close events handled by the initialized client, a
\* diagnostic group is bound to the buffer handle h if and only if h is a live
\* buffer whose path is the group's path
C17_GroupsBoundToLiveBuffers ==
    client.initialized =>
        \A i \in DOMAIN client.diagnostics, h \in 0..(MaxBuffers - 1) :
            (client.diagnostics[i].buffer_handle = h)
                <=> (/\ BufferCollection_has(editor_buffers, h)
                     /\ editor_buffers[h + 1].path = client.diagnostics[i].path)

\* C17, the named case alone: a group stored with no handle is bound by the
\* load of a buffer with its path
C17_LoadBindsStoredGroup ==
    [][\A p \in Paths :
          (/\ client.initialized
           /\ LspOpenBuffer(p, <<>>)
           /\ \E i \in DOMAIN client.diagnostics : client.diagnostics[i].path = p)
          => \E i \in DOMAIN client'.diagnostics :
                /\ client'.diagnostics[i].path = p
                /\ client'.diagnostics[i].buffer_handle
                       = find_buffer_with_path(editor_buffers', p)]_vars

\* C17: a buffer saved under the path of a stored group that has no handle
C17_SavedUnderGroupPath ==
    /\ client.initialized
    /\ \E i \in DOMAIN client.diagnostics, h \in 0..(MaxBuffers - 1) :
          /\ client.diagnostics[i].buffer_handle = -1
          /\ BufferCollection_has(editor_buffers, h)
          /\ editor_buffers[h + 1].path = client.diagnostics[i].path


\* no two edits share characters and no two start at the same position
non_overlapping(edits) ==
    \A i, j \in DOMAIN edits :
        i # j => /\ edits[i].range.from # edits[j].range.from
                 /\ \/ PosLE(edits[i].range.to, edits[j].range.from)
                    \/ PosLE(edits[j].range.to, edits[i].range.from)

\* the text with the range of every edit left replaced by its new text, the
\* ranges read in the coordinates of the text as it was: the edits are
\* applied from the last range to the first
RECURSIVE replace_ranges(_, _, _)
replace_ranges(text, edits, left) ==
    IF left = {} THEN text
    ELSE LET k == CHOOSE k \in left :
                     \A j \in left : PosLE(edits[j].range.from, edits[k].range.from)
         IN replace_ranges(document_apply_change(text,
                               [full |-> FALSE, range |-> edits[k].range,
                                text |-> edits[k].new_text]),
                           edits, left \ {k})

\* C18: a formatting response whose edits do not overlap and are given in the
\* coordinates of the unformatted document leaves the buffer with the
\* original content in which every edit's range is replaced by its new text
C18_FormattingReplacesRanges ==
    [][\A id \in 1..MaxRequests, edits \in FormattingEditLists :
          (/\ request_origin_method(id) = "textDocument/formatting"
           /\ BufferCollection_has(editor_buffers, request_handle(id))
           /\ edits_in_content(editor_buffers[request_handle(id) + 1].content, edits)
           /\ non_overlapping(edits)
           /\ LspReply(id, "value", FALSE, edits))
          => buffer_to_string(editor_buffers'[request_handle(id) + 1].content)
                = replace_ranges(buffer_to_string(editor_buffers[request_handle(id) + 1].content),
                                 edits, DOMAIN edits)]_vars


\* C19: a text that parses has the bang flag set if and only if a `!` is
\* the character right behind the command name
C19_BangOnlyRightBehindName ==
    (cmd_parsed /\ cmd_result.ok) =>
        (cmd_result.args.bang
            <=> (/\ next_token(cmd_text).rest # <<>>
                 /\ Head(next_token(cmd_text).rest) = "!"))

\* the tokens of a text
RECURSIVE command_tokens(_)
command_tokens(text) ==
    IF next_token(text).kind = "None" THEN <<>>
    ELSE <<next_token(text)>> \o command_tokens(next_token(text).rest)

\* the tokens behind the command name and its bang
argument_tokens(text) ==
    IF Len(command_tokens(text)) >= 2 /\ command_tokens(text)[2].kind = "Bang"
    THEN SubSeq(command_tokens(text), 3, Len(command_tokens(text)))
    ELSE Tail(command_tokens(text))

\* token k is the value behind the `=` of a flag
is_flag_value(tokens, k) ==
    k >= 3 /\ tokens[k - 1].kind = "Equals" /\ tokens[k - 2].kind = "Flag"

\* the Text tokens that are no flag's value, in their order
RECURSIVE positional_tokens(_, _)
positional_tokens(tokens, k) ==
    IF k > Len(tokens) THEN <<>>
    ELSE (IF tokens[k].kind = "Text" /\ ~is_flag_value(tokens, k)
          THEN <<tokens[k].token>> ELSE <<>>) \o positional_tokens(tokens, k + 1)

\* what the last Flag token with the key is bound to: the value behind its
\* `=`, "true" when it has none, the empty text when there is no such token
flag_binding(tokens, key) ==
    LET uses == {k \in DOMAIN tokens : tokens[k].kind = "Flag" /\ tokens[k].token = key}
        last == CHOOSE k \in uses : \A j \in uses : j <= k
    IN IF uses = {} THEN <<>>
       ELSE IF last + 2 <= Len(tokens) /\ is_flag_value(tokens, last + 2)
       THEN tokens[last + 2].token
       ELSE TrueText

\* C20: in a text that parses, the i-th Text token behind the command name
\* that is no flag's `=` value is the i-th positional value, the required
\* slots filled before the optional ones, and every flag holds the value
\* behind its `=`, or "true" when it has none
C20_ValuesAndFlagsBound ==
    (cmd_parsed /\ cmd_result.ok) =>
        LET command == builtin_commands[cmd_result.source + 1]
            values == positional_tokens(argument_tokens(cmd_text), 1)
            required == Min(Len(values), command.required_values)
        IN /\ \A i \in 1..MAX_REQUIRED_VALUES_LEN :
                 cmd_result.args.required_values[i]
                    = IF i <= required THEN values[i] ELSE <<>>
           /\ \A i \in 1..MAX_OTHER_VALUES_LEN :
                 cmd_result.args.other_values[i]
                    = IF command.required_values + i <= Len(values)
                      THEN SomeValue(values[command.required_values + i]) ELSE NoValue
           /\ \A i \in DOMAIN command.flags :
                 cmd_result.args.flags[i]
                    = flag_binding(argument_tokens(cmd_text), command.flags[i])

\* C20: a parse that filled a required slot, an optional slot and a flag
C20_Witness ==
    /\ cmd_parsed /\ cmd_result.ok
    /\ builtin_commands[cmd_result.source + 1].required_values > 0
    /\ cmd_result.args.required_values[1] # <<>>
    /\ cmd_result.args.other_values[1].some
    /\ \E i \in 1..MAX_FLAGS_LEN : cmd_result.args.flags[i] \notin {<<>>, TrueText}


\* C21: every error of the parse of a command text and of the conversion of
\* its arguments carries a token that is a slice of the text: the display
\* computes an offset and a length that lie within the text
C21_ErrorTokenWithinText ==
    cmd_display.state \in {"written", "panicked"} =>
        /\ cmd_display.state = "written"
        /\ cmd_display.error_offset + cmd_display.error_len <= Len(cmd_text)

\* C21 for the errors of the parse alone
C21_ParseErrorTokenWithinText ==
    (cmd_parsed /\ ~cmd_result.ok) =>
        /\ cmd_result.error_token.tail # StaticTail
        /\ cmd_result.error_token.tail <= Len(cmd_text)
        /\ Len(cmd_result.error_token.token) <= cmd_result.error_token.tail
        /\ cmd_result.error_token.token
              = SubSeq(cmd_text, Len(cmd_text) - cmd_result.error_token.tail + 1,
                       Len(cmd_text) - cmd_result.error_token.tail
                          + Len(cmd_result.error_token.token))


\* C22: after any add_to_history calls on a manager made by new, the history
\* holds at most HISTORY_CAPACITY entries, which are the last non-empty
\* strings added, in the order of their insertion
C22_HistoryKeepsLastEntries ==
    /\ Len(cm_history) <= HISTORY_CAPACITY
    /\ cm_history = SubSeq(cm_added, Max(1, Len(cm_added) - HISTORY_CAPACITY + 1),
                           Len(cm_added))


\* the index of the first delimiter of the line behind index i, or -1
next_delimiter(line, i, delimiter) ==
    IF \E j \in (i + 1)..(Len(line) - 1) : line[j + 1] = delimiter
    THEN CHOOSE j \in (i + 1)..(Len(line) - 1) :
            /\ line[j + 1] = delimiter
            /\ \A k \in (i + 1)..(j - 1) : line[k + 1] # delimiter
    ELSE -1

C23_OddDelimiterAtCursorIsLeft ==
    LET line == dp_lines[dp_position.line + 1]
        right == next_delimiter(line, dp_position.col, "|")
    IN (/\ dp_called
        /\ dp_position.line < Len(dp_lines)
        /\ dp_position.col < Len(line)
        /\ line[dp_position.col + 1] = "|"
        /\ Cardinality({j \in 1..dp_position.col : line[j] = "|"}) % 2 = 0
        /\ right # -1)
       => dp_result = SomeRange(Rng(Pos(dp_position.line, dp_position.col + 1),
                                    Pos(dp_position.line, right)))


\* the properties after the names are applied in their order
RECURSIVE properties_applied(_, _)
properties_applied(properties, names) ==
    IF names = <<>> THEN properties
    ELSE properties_applied(apply_property(properties, Head(names)), Tail(names))

\* C24: `open PATH P1 .. Pn` opens PATH with the properties applied when
\* every Pi is a property name, and fails with the unknown-property error
\* if and only if some Pi is none
C24_OpenPathThenProperties ==
    (op_called /\ op_args # <<>> /\ Head(op_args) \notin PropertyNames) =>
        IF \A i \in 2..Len(op_args) : op_args[i] \in PropertyNames
        THEN /\ op_result.ok
             /\ op_result.path = Head(op_args)
             /\ op_result.properties
                   = properties_applied(BufferProperties_text, Tail(op_args))
        ELSE ~op_result.ok /\ op_result.error = "NoSuchBufferProperty"

\* C24 with the path behind the properties: `open P1 .. Pn PATH`
C24_OpenPropertiesThenPath ==
    (op_called /\ op_args # <<>>) =>
        IF \A i \in 1..(Len(op_args) - 1) : op_args[i] \in PropertyNames
        THEN /\ op_result.ok
             /\ op_result.path = op_args[Len(op_args)]
             /\ op_result.properties
                   = properties_applied(BufferProperties_text,
                                        SubSeq(op_args, 1, Len(op_args) - 1))
        ELSE ~op_result.ok /\ op_result.error = "NoSuchBufferProperty"


\* a line of nothing but whitespace
is_blank(line) == \A i \in 1..Len(line) : is_ascii_whitespace(line[i])

\* the lines taken as skipped: the `#` lines and the blank ones, or of the
\* blank ones the empty ones alone
is_skipped(line, whitespace_is_blank) ==
    \/ line # <<>> /\ Head(line) = "#"
    \/ IF whitespace_is_blank THEN is_blank(line) ELSE line = <<>>

\* the 1-based numbers of the lines that are not skipped, up to the first
\* one whose evaluation fails
RECURSIVE lines_to_evaluate(_, _, _)
lines_to_evaluate(lines, number, whitespace_is_blank) ==
    IF number > Len(lines) THEN <<>>
    ELSE IF is_skipped(lines[number], whitespace_is_blank)
    THEN lines_to_evaluate(lines, number + 1, whitespace_is_blank)
    ELSE IF try_eval(lines[number])
    THEN <<number>> \o lines_to_evaluate(lines, number + 1, whitespace_is_blank)
    ELSE <<number>>

config_outcome(whitespace_is_blank) ==
    LET lines == str_lines(config_content)
        expected == lines_to_evaluate(lines, 1, whitespace_is_blank)
        failed == expected # <<>> /\ ~try_eval(lines[expected[Len(expected)]])
    IN /\ config_evaluated = expected
       /\ status_bar = IF failed
                       THEN ErrorStatus(ConfigName, expected[Len(expected)],
                                        lines[expected[Len(expected)]])
                       ELSE NoStatus

\* C25: load_config evaluates the lines in order, skips the blank lines
\* (whitespace-only ones too) and the lines that start with `#`, and at the
\* first line that fails it writes the script name and the 1-based line
\* number to the status bar and evaluates no later line
C25_BlankAndCommentLinesSkipped ==
    config_loaded => config_outcome(TRUE)

\* C25 where only the empty lines and the `#` lines are skipped
C25_EmptyAndCommentLinesSkipped ==
    (config_loaded /\ config_content # <<>>) => config_outcome(FALSE)


\* the step is a call of Buffer::delete_range with a range of equal ends
empty_delete_step ==
    /\ sb_steps' = sb_steps + 1
    /\ sb_call'.op = "delete_range"
    /\ sb_call'.range.from = sb_call'.range.to

\* C26: Buffer::delete_range with a range of two equal ends leaves the
\* content, the edit history, the needs-save flag, the word database counts
\* and the cached search ranges unchanged
C26_EmptyDeleteChangesNothing ==
    [][empty_delete_step =>
          /\ sb_buffer' = sb_buffer
          /\ sb_words' = sb_words
          /\ search_ranges' = search_ranges]_vars

\* C26 without the cached search ranges
C26_EmptyDeleteKeepsBuffer ==
    [][empty_delete_step => (sb_buffer' = sb_buffer /\ sb_words' = sb_words)]_vars


has_jsonrpc(body) == JsonObject_get(body, "jsonrpc") = {JsonString("2.0")}

\* C27: every message the client writes to a server (request, notification
\* and response to a server request) carries the field jsonrpc with the
\* value "2.0"
C27_EveryMessageHasJsonrpc ==
    \A i \in 1..Len(sent_bodies) :
        sent_bodies[i].kind \in {"request", "notification", "response"}
            => has_jsonrpc(sent_bodies[i].body)

\* C27 for the requests and the notifications
C27_RequestsAndNotificationsHaveJsonrpc ==
    \A i \in 1..Len(sent_bodies) :
        sent_bodies[i].kind \in {"request", "notification"} => has_jsonrpc(sent_bodies[i].body)


\* the edits of the group of number g, none where there is no such group
group_edits(g) == IF g \in 1..Len(ur_groups) THEN ur_groups[g] ELSE <<>>

\* C28: after one or more pushed edits undo() yields the edits of the latest
\* group in reverse order and moves the group pointer: a following redo()
\* yields the same group in forward order, and a second undo() yields the
\* group before it, or nothing if there is none
C28_UndoYieldsLatestGroup ==
    (ur_groups # <<>> /\ ur_calls # <<>> /\ ur_calls[1].op = "undo") =>
        /\ ur_calls[1].edits = Reverse(group_edits(Len(ur_groups)))
        /\ Len(ur_calls) >= 2 =>
              IF ur_calls[2].op = "redo"
              THEN ur_calls[2].edits = group_edits(Len(ur_groups))
              ELSE ur_calls[2].edits = Reverse(group_edits(Len(ur_groups) - 1))

\* what the calls yield in the model: the group that commit_edits opened
\* behind the pushed edits, which holds no edit
C28_UndoYieldsOpenedGroup ==
    \A i \in 1..Len(ur_calls) :
        ur_calls[i].op \in {"undo", "redo"} => ur_calls[i].edits = <<>>


\* the (range, text) events of the pending edits
pending_events(pending_edits) ==
    [i \in 1..Len(pending_edits) |->
        [full |-> FALSE, range |-> pending_edits[i].range, text |-> pending_edits[i].text]]

\* the body of a didChange as the capability `kind` asks for it
body_for(kind, notification) ==
    /\ kind = "Full" =>
          notification.content_changes =
              <<[full |-> TRUE, range |-> Rng(Pos(0, 0), Pos(0, 0)), text |-> notification.text]>>
    /\ kind = "Incremental" =>
          notification.content_changes = pending_events(notification.pending_edits)

\* C29: the body of every didChange is chosen by textDocumentSync.change
\* alone: the full text when it is Full, the pending (range, text) events
\* when it is Incremental, whatever the save capability is, and no didChange
\* has an empty list of content changes
C29_BodyChosenByChange ==
    \A i \in 1..Len(dc_sent) :
        /\ body_for(dc_capabilities.change, dc_sent[i])
        /\ dc_sent[i].content_changes # <<>>

\* the body follows textDocumentSync.save
C29_BodyChosenBySave ==
    \A i \in 1..Len(dc_sent) :
        /\ body_for(dc_capabilities.save, dc_sent[i])
        /\ dc_capabilities.save = "None" <=> dc_sent[i].content_changes = <<>>


\* the place of a handler in the order of the claim: the pending platform
\* requests, the listener, the clients and the processes by their handle
handler_rank(handler) ==
    IF handler.kind = "requests" THEN 0
    ELSE IF handler.kind = "listener" THEN 1
    ELSE IF handler.kind = "client" THEN 2 + handler.handle
    ELSE 2 + MAX_CLIENT_COUNT + handler.handle

\* C30: within one batch of ready sources the handlers run in the order
\* pending platform requests, listener, client connections by ascending
\* handle, process streams by ascending handle, whatever order the
\* operating system reports the sources in
C30_HandlersRunInFixedOrder ==
    \A i, j \in 1..Len(ev_handled) :
        i < j => handler_rank(ev_handled[i]) < handler_rank(ev_handled[j])

\* the sources of the batch were reported in the order of the claim
reported_ascending ==
    \A i, j \in 1..Len(ev_reported) :
        i < j => handler_rank(event_handler(ev_reported[i]))
                    < handler_rank(event_handler(ev_reported[j]))

\* C30 for the batches the operating system reports in the order of the
\* claim; the handlers run in the order the sources were reported
C30_HandlersRunInReportedOrder ==
    /\ ev_handled = [i \in 1..Len(ev_handled) |-> event_handler(ev_reported[i])]
    /\ reported_ascending => C30_HandlersRunInFixedOrder


\* C31: after an event that is not Idle, with no further source ready, an
\* Idle event is eventually emitted
C31_IdleFollowsEveryEvent == ev_idle_owed ~> ~ev_idle_owed

\* C31 for the events after which the wait has a timeout
C31_IdleFollowsWhileTimeoutSet == (ev_idle_owed /\ ev_timeout) ~> ~ev_idle_owed


\* the key event came from the focused client behind a Pending result and
\* the keymaps left the keys as they were
key_after_pending ==
    /\ ky_event.pending_before /\ ~ky_event.refocused /\ ky_event.matched = "None"

\* C32: behind a Pending result that took the first k buffered keys, the
\* keys delivered on the next key event are the buffered keys not taken
\* followed by the new key, and after any other result the buffered keys
\* are empty
C32_TakenKeysNotDeliveredAgain ==
    /\ key_after_pending =>
          ky_event.delivered =
              SubSeq(ky_event.keys_before, ky_event.index_before + 1,
                     Len(ky_event.keys_before)) \o <<ky_event.key>>
    /\ (ky_events > 0 /\ ky_event.matched # "Prefix" /\ ~ky_pending) => buffered_keys = <<>>

\* C32 with every buffered key delivered again behind a Pending result
C32_BufferedKeysDeliveredAgain ==
    /\ key_after_pending => ky_event.delivered = Append(ky_event.keys_before, ky_event.key)
    /\ (ky_events > 0 /\ ky_event.matched # "Prefix" /\ ~ky_pending) => buffered_keys = <<>>


char_counts_right ==
    \A i \in 1..Len(lp_content.lines) :
        lp_content.lines[i].char_count = Len(lp_content.lines[i].text)

\* C33: after any sequence of insert_text and delete_range calls on a
\* content with a line pool every line's cached char_count is the number
\* of characters of the line's text
C33_CharCountIsTextLength == ~lp_content.panic /\ char_counts_right

\* C33 as long as no line with a count left over was rented from the pool
C33_CharCountWithoutRecycledLine ==
    ~lp_content.recycled => (~lp_content.panic /\ char_counts_right)


pushed_reads_back ==
    /\ ~tx_text.panic
    /\ Text_as_str(tx_text) = Text_as_str(tx_before) \o tx_pushed

\* C34: for every Text t and every string s of any length, lengths of 226
\* bytes and more included, t reads back after t.push_str(s) as the old
\* content followed by s
C34_PushStrReadsBack == tx_called => pushed_reads_back

\* C34 for the strings that keep the sum of the inline length and the
\* length of s within u8
C34_PushStrWithinU8ReadsBack ==
    (tx_called /\ (tx_before.inline => tx_before.len + Len(tx_pushed) < U8))
        => pushed_reads_back

\* C35: every request received from the server is answered with exactly one
\* response that carries the id of the request, on every path of the handler
C35_EveryRequestAnsweredOnce ==
    rq_request # NoRequest =>
        /\ Len(rq_responses) = 1
        /\ rq_responses[1].request_id = rq_request.id

\* every value the handler deserializes is well formed
params_deserialize(request) ==
    IF request.method = "client/registerCapability"
    THEN \A i \in 1..Len(request.params) :
            /\ request.params[i].well_formed
            /\ \A j \in 1..Len(request.params[i].filters) :
                  request.params[i].filters[j].well_formed
    ELSE IF request.method = "window/showDocument" THEN request.params.well_formed
    ELSE TRUE

\* Uri::parse returns a path for the uri of window/showDocument
uri_parses(request) ==
    request.method = "window/showDocument" => request.params.uri # "None"

\* a request whose values deserialize and whose uri parses is answered with
\* exactly one response that carries its id
C35_DeserializedRequestAnsweredOnce ==
    (rq_request # NoRequest /\ params_deserialize(rq_request) /\ uri_parses(rq_request)) =>
        /\ Len(rq_responses) = 1
        /\ rq_responses[1].request_id = rq_request.id

\* C36: when the output of a server yields a Closed event, the entry of the
\* client is absent from the client manager once the output has been handled
C36_ClosedRemovesEntry ==
    (mg_event.kind = "output" /\ mg_event.closed) =>
        ~entries[mg_event.handle + 1].present

\* handling an output leaves the slot as it found it: occupied by the same
\* client or empty, whether or not the output held a Closed event
C36_OutputKeepsSlot ==
    mg_event.kind = "output" =>
        /\ entries[mg_event.handle + 1].present = mg_event.before.present
        /\ entries[mg_event.handle + 1].client = mg_event.before.client

\* C37: after a client is stopped and a new client is started in its slot,
\* the output and exit events of the process of the stopped client are never
\* delivered to the new client and never remove it
C37_StaleEventsMissNewClient ==
    (mg_event.kind \in {"output", "exit"} /\ mg_event.before.present) =>
        mg_event.before.client = mg_event.process

\* the events of a process whose client was never removed from its slot
\* reach that client
C37_EventsOfKeptClientReachIt ==
    (mg_event.kind \in {"output", "exit"} /\ mg_event.before.present
        /\ mg_event.process \notin mg_removed \ {mg_event.before.client}) =>
        mg_event.before.client = mg_event.process

\* C38: the server sends exactly one ConnectionClose for every ConnectionOpen
\* and none for a handle that has no open connection, however failed writes,
\* CloseClient requests and reads at the end of the stream interleave
C38_OneClosePerOpen ==
    \A handle \in ConnectionHandles :
        sent_count(cn_sent, "ConnectionClose", handle)
            = sent_count(cn_sent, "ConnectionOpen", handle)
                - (IF client_connections[handle] THEN 1 ELSE 0)

\* apart from the CloseClient requests taken for a handle without a
\* connection, every ConnectionClose answers one ConnectionOpen
C38_OneClosePerOpenOrCloseClient ==
    \A handle \in ConnectionHandles :
        sent_count(cn_sent, "ConnectionClose", handle)
            = sent_count(cn_sent, "ConnectionOpen", handle)
                - (IF client_connections[handle] THEN 1 ELSE 0)
                + cn_closed_none[handle]

\* C39: once the stream is at its end and reads return 0 bytes,
\* read_content_from returns after finitely many reads and the thread sends
\* Closed
C39_EndOfStreamEmitsClosed == (rb_pc # "off" /\ rb_stream = <<>>) ~> rd_closed

\* the thread returns every frame of the stream unless a read fails first
C39_FramesReturnedOrClosed == <>(rb_returned = rb_frames \/ rd_closed)

\* the commands yielded are non-empty slices of the input in source order
yielded_in_order ==
    /\ \A k \in 1..Len(ci_yielded) :
          /\ 0 <= ci_yielded[k].start
          /\ ci_yielded[k].start < ci_yielded[k].end
          /\ ci_yielded[k].end <= Len(ci_input)
    /\ \A k \in 2..Len(ci_yielded) : ci_yielded[k - 1].end <= ci_yielded[k].start

\* C40: for every input, one that ends with a backslash or an unfinished
\* comment included, CommandIter reads nothing outside the input and yields
\* non-empty slices of the input in source order
C40_CommandIterStaysInInput == ~ci_panicked /\ yielded_in_order

\* for an input that does not end with a backslash CommandIter reads nothing
\* outside the input and yields non-empty slices of it in source order
C40_NoTrailingBackslashStaysInInput ==
    (ci_input = <<>> \/ ci_input[Len(ci_input)] # "\\") =>
        (~ci_panicked /\ yielded_in_order)

====
